---- MODULE Spec2Model ----
(***************************************************************************)
(* Model of the pumpfun-rs AMM quoting engine (src/src/utils/amm).         *)
(*                                                                         *)
(* The quoting functions work on u64 and u128 values.  TLC's integers are  *)
(* 32 bits wide, so a Rust integer is represented here by the sequence of  *)
(* its base-10000 digits, least significant first, without leading zeros   *)
(* (zero is << >>).  The arithmetic below is exact on such sequences; the  *)
(* widths of the Rust types are imposed where the code imposes them:       *)
(* checked_* operations fail when the exact result leaves the type, `as    *)
(* u64` reduces modulo 2^64, and unchecked operators panic in a build with *)
(* overflow checks and wrap in a build without them.                       *)
(***************************************************************************)
EXTENDS Integers, Sequences, FiniteSets, TLC

\* Radix of the digit sequences (a representation choice, not a program value).
RADIX == 100 * 100

----------------------------------------------------------------------------
(* Exact arithmetic on digit sequences *)

RECURSIVE Norm(_)
Norm(s) ==
    IF s = << >> THEN << >>
    ELSE IF s[Len(s)] = 0 THEN Norm(SubSeq(s, 1, Len(s) - 1))
    ELSE s

Limb(s, i) == IF i <= Len(s) THEN s[i] ELSE 0

RECURSIVE FromInt(_)
FromInt(i) == IF i = 0 THEN << >> ELSE <<i % RADIX>> \o FromInt(i \div RADIX)

RECURSIVE LessAt(_, _, _)
LessAt(a, b, i) ==
    IF i = 0 THEN FALSE
    ELSE IF a[i] # b[i] THEN a[i] < b[i]
    ELSE LessAt(a, b, i - 1)

Less(a, b) == IF Len(a) # Len(b) THEN Len(a) < Len(b) ELSE LessAt(a, b, Len(a))

Leq(a, b) == ~Less(b, a)

RECURSIVE AddAt(_, _, _, _)
AddAt(a, b, i, carry) ==
    IF i > Len(a) /\ i > Len(b)
    THEN IF carry = 0 THEN << >> ELSE <<carry>>
    ELSE LET t == Limb(a, i) + Limb(b, i) + carry
         IN  <<t % RADIX>> \o AddAt(a, b, i + 1, t \div RADIX)

Add(a, b) == AddAt(a, b, 1, 0)

RECURSIVE SubAt(_, _, _, _)
SubAt(a, b, i, borrow) ==
    IF i > Len(a) THEN << >>
    ELSE LET t == a[i] - Limb(b, i) - borrow
         IN  IF t < 0 THEN <<t + RADIX>> \o SubAt(a, b, i + 1, 1)
             ELSE <<t>> \o SubAt(a, b, i + 1, 0)

\* a - b for a >= b
Sub(a, b) == Norm(SubAt(a, b, 1, 0))

RECURSIVE MulSmallAt(_, _, _, _)
MulSmallAt(a, d, i, carry) ==
    IF i > Len(a)
    THEN IF carry = 0 THEN << >> ELSE <<carry>>
    ELSE LET t == a[i] * d + carry
         IN  <<t % RADIX>> \o MulSmallAt(a, d, i + 1, t \div RADIX)

\* a * d for a digit d in 0 .. RADIX - 1
MulSmall(a, d) == IF d = 0 THEN << >> ELSE MulSmallAt(a, d, 1, 0)

Shift(a) == IF a = << >> THEN << >> ELSE <<0>> \o a

RECURSIVE MulAt(_, _, _)
MulAt(a, b, i) ==
    IF i > Len(b) THEN << >>
    ELSE Add(MulSmall(a, b[i]), Shift(MulAt(a, b, i + 1)))

Mul(a, b) == MulAt(a, b, 1)

\* The largest digit d in lo .. hi with b * d <= rem (b * lo <= rem is given).
RECURSIVE Digit(_, _, _, _)
Digit(rem, b, lo, hi) ==
    IF lo = hi THEN lo
    ELSE LET mid == (lo + hi + 1) \div 2
         IN  IF Less(rem, MulSmall(b, mid)) THEN Digit(rem, b, lo, mid - 1)
             ELSE Digit(rem, b, mid, hi)

\* Long division of the digits i .. Len(a) of a by b # 0: [q, r].
RECURSIVE DivAt(_, _, _)
DivAt(a, b, i) ==
    IF i > Len(a) THEN [q |-> << >>, r |-> << >>]
    ELSE LET prev == DivAt(a, b, i + 1)
             rem  == Norm(<<a[i]>> \o prev.r)
             d    == IF Less(rem, b) THEN 0 ELSE Digit(rem, b, 1, RADIX - 1)
         IN  [q |-> Norm(<<d>> \o prev.q), r |-> Sub(rem, MulSmall(b, d))]

\* floor(a / b) and a mod b, for b # 0
Div(a, b) == DivAt(a, b, 1).q
Mod(a, b) == DivAt(a, b, 1).r

\* ceil(a / b), for b # 0
DivCeil(a, b) ==
    LET qr == DivAt(a, b, 1)
    IN  IF qr.r = << >> THEN qr.q ELSE Add(qr.q, <<1>>)

----------------------------------------------------------------------------
(* Rust integer types and results *)

TwoPow64 == <<1616, 955, 737, 6744, 1844>>
TwoPow128 == Mul(TwoPow64, TwoPow64)
U64Max == Sub(TwoPow64, <<1>>)

FitsU64(a) == Less(a, TwoPow64)
FitsU128(a) == Less(a, TwoPow128)

\* `v as u64` for a u128 v: the low 64 bits
AsU64(a) == IF FitsU64(a) THEN a ELSE Mod(a, TwoPow64)

\* Option<T> of the checked_* operations
Some(v) == [some |-> TRUE, v |-> v]
None == [some |-> FALSE, v |-> << >>]

CheckedMul64(a, b) == LET p == Mul(a, b) IN IF FitsU64(p) THEN Some(p) ELSE None
CheckedAdd64(a, b) == LET t == Add(a, b) IN IF FitsU64(t) THEN Some(t) ELSE None
CheckedSub64(a, b) == IF Less(a, b) THEN None ELSE Some(Sub(a, b))
CheckedMul128(a, b) == LET p == Mul(a, b) IN IF FitsU128(p) THEN Some(p) ELSE None
CheckedAdd128(a, b) == LET t == Add(a, b) IN IF FitsU128(t) THEN Some(t) ELSE None
CheckedSub128(a, b) == IF Less(a, b) THEN None ELSE Some(Sub(a, b))
\* Mutant of CheckedDiv128: the quotient rounded up instead of down
CheckedDiv128_rounding_up(a, b) == IF b = << >> THEN None ELSE Some(DivCeil(a, b))
CheckedDiv128(a, b) == IF b = << >> THEN None ELSE Some(Div(a, b))

\* Result<T, ClientError>, and a panic that unwinds out of the function
Ok(v) == [tag |-> "Ok", val |-> v, msg |-> ""]
Err(m) == [tag |-> "Err", val |-> << >>, msg |-> m]
Panic(m) == [tag |-> "Panic", val |-> << >>, msg |-> m]

\* u128::div_ceil: like `/`, it panics on a zero divisor in every build
U128DivCeil(a, b) ==
    IF b = << >> THEN Panic("attempt to divide by zero")
    ELSE Ok(DivCeil(a, b))

MAX_FEE_BASIS_POINTS == 10000
PRECISION == 1000000000

----------------------------------------------------------------------------
(* src/src/utils/amm/mod.rs *)

\* Mutant of ceil_div: the ceiling taken as floor + 1, also on an exact division
ceil_div_floor_plus_one(a, b) ==
    IF b = << >> THEN Err("Division by zero")
    ELSE Ok(Add(Div(a, b), <<1>>))

ceil_div(a, b) ==
    IF b = << >> THEN Err("Division by zero")
    ELSE Ok(DivCeil(a, b))

fee(amount, fee_bps) ==
    LET product == CheckedMul64(amount, fee_bps)
    IN  IF ~product.some THEN Err("Fee calculation overflow")
        ELSE ceil_div(product.v, FromInt(MAX_FEE_BASIS_POINTS))

----------------------------------------------------------------------------
(* Slippage factors.  The operators +, -, * and / of the source are        *)
(* unchecked: on overflow they panic when the build has overflow checks    *)
(* (`checks`, the default of a debug build) and wrap when it has none (the *)
(* default of a release build).                                            *)

\* ((100 + slippage as u128) * precision) / 100; cannot overflow for a u8
AddSlippageFactor(slippage) ==
    Div(Mul(FromInt(100 + slippage), FromInt(PRECISION)), FromInt(100))

\* ((1_u128 + (slippage as u128)) * 1_000_000_000) / 100
DepositSlippageFactor(slippage) ==
    Div(Mul(FromInt(1 + slippage), FromInt(PRECISION)), FromInt(100))

\* ((100 - slippage as u128) * precision) / 100
SubSlippageFactor(slippage, checks) ==
    IF slippage <= 100
    THEN Ok(Div(Mul(FromInt(100 - slippage), FromInt(PRECISION)), FromInt(100)))
    ELSE IF checks THEN Panic("attempt to subtract with overflow")
    ELSE LET diff == Sub(TwoPow128, FromInt(slippage - 100))
             prod == Mod(Mul(diff, FromInt(PRECISION)), TwoPow128)
         IN  Ok(Div(prod, FromInt(100)))

----------------------------------------------------------------------------
(* src/src/utils/amm/buy.rs *)

\* (total_quote as u128).checked_mul(factor)?.checked_div(precision)? as u64
ApplySlippage(amount, factor) ==
    LET scaled == CheckedMul128(amount, factor)
    IN  IF ~scaled.some THEN None
        ELSE Some(AsU64(CheckedDiv128(scaled.v, FromInt(PRECISION)).v))

\* Mutant of buy_base_validations: no check of base == 0 (as in sell_base_input)
buy_base_validations_no_zero_base(base, base_reserve, quote_reserve) ==
    IF base_reserve = << >> \/ quote_reserve = << >>
    THEN Err("Invalid input: 'base_reserve' or 'quote_reserve' cannot be zero")
    ELSE IF Less(base_reserve, base)
    THEN Err("Cannot buy more base tokens than the pool reserves")
    ELSE Ok(<< >>)

\* The "basic validations" that open buy_base_input
buy_base_validations(base, base_reserve, quote_reserve) ==
    IF base = << >> THEN Err("Invalid input: 'base' cannot be zero")
    ELSE IF base_reserve = << >> \/ quote_reserve = << >>
    THEN Err("Invalid input: 'base_reserve' or 'quote_reserve' cannot be zero")
    ELSE IF Less(base_reserve, base)
    THEN Err("Cannot buy more base tokens than the pool reserves")
    ELSE Ok(<< >>)

buy_base_input(base, slippage, base_reserve, quote_reserve, lp_fee_bps, protocol_fee_bps) ==
    LET valid == buy_base_validations(base, base_reserve, quote_reserve)
    IN
    IF valid.tag # "Ok" THEN valid
    ELSE
    LET numerator   == CheckedMul128(quote_reserve, base)
        denominator == CheckedSub128(base_reserve, base)
    IN  IF ~numerator.some THEN Err("Multiplication overflow")
        ELSE IF ~denominator.some THEN Err("Subtraction underflow")
        ELSE IF denominator.v = << >>
        THEN Err("Pool would be depleted; denominator is zero")
        ELSE
        LET quotient        == U128DivCeil(numerator.v, denominator.v)
            quote_amount_in == AsU64(quotient.val)
            lp_fee          == fee(quote_amount_in, lp_fee_bps)
            protocol_fee    == fee(quote_amount_in, protocol_fee_bps)
        IN  IF quotient.tag # "Ok" THEN quotient
            ELSE IF lp_fee.tag # "Ok" THEN lp_fee
            ELSE IF protocol_fee.tag # "Ok" THEN protocol_fee
            ELSE
            LET with_lp     == CheckedAdd64(quote_amount_in, lp_fee.val)
                total_quote == IF with_lp.some
                               THEN CheckedAdd64(with_lp.v, protocol_fee.val)
                               ELSE None
            IN  IF ~total_quote.some THEN Err("Fee addition overflow")
                ELSE
                LET max_quote == ApplySlippage(total_quote.v, AddSlippageFactor(slippage))
                IN  IF ~max_quote.some THEN Err("Slippage calculation overflow")
                    ELSE Ok(<<quote_amount_in, total_quote.v, max_quote.v>>)

buy_quote_input(quote, slippage, base_reserve, quote_reserve, lp_fee_bps, protocol_fee_bps) ==
    IF quote = << >> THEN Err("Invalid input: 'quote' cannot be zero")
    ELSE IF base_reserve = << >> \/ quote_reserve = << >>
    THEN Err("Invalid input: 'base_reserve' or 'quote_reserve' cannot be zero")
    ELSE
    LET total_fee_bps == CheckedAdd64(lp_fee_bps, protocol_fee_bps)
    IN  IF ~total_fee_bps.some THEN Err("Fee addition overflow")
        ELSE
        LET denominator == CheckedAdd64(FromInt(MAX_FEE_BASIS_POINTS), total_fee_bps.v)
        IN  IF ~denominator.some THEN Err("Denominator addition overflow")
            ELSE
            LET scaled == CheckedMul128(quote, FromInt(MAX_FEE_BASIS_POINTS))
                eff    == IF scaled.some THEN CheckedDiv128(scaled.v, denominator.v)
                          ELSE None
            IN  IF ~scaled.some THEN Err("Quote calculation overflow")
                ELSE IF ~eff.some THEN Err("Quote division by zero")
                ELSE
                LET effective_quote       == AsU64(eff.v)
                    numerator             == CheckedMul128(base_reserve, effective_quote)
                    denominator_effective == CheckedAdd128(quote_reserve, effective_quote)
                IN  IF ~numerator.some THEN Err("Base calculation overflow")
                    ELSE IF ~denominator_effective.some
                    THEN Err("Denominator addition overflow")
                    ELSE IF denominator_effective.v = << >>
                    THEN Err("Pool would be depleted; denominator is zero")
                    ELSE
                    LET base_amount_out ==
                            AsU64(CheckedDiv128(numerator.v, denominator_effective.v).v)
                        max_quote == ApplySlippage(quote, AddSlippageFactor(slippage))
                    IN  IF ~max_quote.some THEN Err("Slippage calculation overflow")
                        ELSE Ok(<<effective_quote, base_amount_out, max_quote.v>>)

----------------------------------------------------------------------------
(* src/src/utils/amm/sell.rs.  coin_creator_is_default stands for          *)
(* Pubkey::default().eq(coin_creator); `checks` is the build's overflow-   *)
(* checks setting.                                                         *)

sell_base_input(base, slippage, base_reserve, quote_reserve, lp_fee_bps, protocol_fee_bps, coin_creator_fee_bps, coin_creator_is_default, checks) ==
    IF base_reserve = << >> \/ quote_reserve = << >>
    THEN Err("Invalid input: 'base_reserve' or 'quote_reserve' cannot be zero")
    ELSE
    LET product == CheckedMul128(quote_reserve, base)
        divisor == CheckedAdd128(base_reserve, base)
        out     == IF product.some /\ divisor.some
                   THEN CheckedDiv128(product.v, divisor.v) ELSE None
    IN  IF ~product.some THEN Err("Multiplication overflow")
        ELSE IF ~divisor.some THEN Err("Addition overflow")
        ELSE IF ~out.some THEN Err("Division by zero")
        ELSE
        LET quote_amount_out == AsU64(out.v)
            lp_fee           == fee(quote_amount_out, lp_fee_bps)
            protocol_fee     == fee(quote_amount_out, protocol_fee_bps)
            coin_creator_fee == IF coin_creator_is_default THEN Ok(<< >>)
                                ELSE fee(quote_amount_out, coin_creator_fee_bps)
        IN  IF lp_fee.tag # "Ok" THEN lp_fee
            ELSE IF protocol_fee.tag # "Ok" THEN protocol_fee
            ELSE IF coin_creator_fee.tag # "Ok" THEN coin_creator_fee
            ELSE
            LET less_lp       == CheckedSub64(quote_amount_out, lp_fee.val)
                less_protocol == IF less_lp.some
                                 THEN CheckedSub64(less_lp.v, protocol_fee.val)
                                 ELSE None
                final_quote   == IF less_protocol.some
                                 THEN CheckedSub64(less_protocol.v, coin_creator_fee.val)
                                 ELSE None
            IN  IF ~final_quote.some THEN Err("Fee subtraction underflow")
                ELSE
                LET slippage_factor == SubSlippageFactor(slippage, checks)
                IN  IF slippage_factor.tag # "Ok" THEN slippage_factor
                    ELSE
                    LET min_quote == ApplySlippage(final_quote.v, slippage_factor.val)
                    IN  IF ~min_quote.some THEN Err("Slippage calculation overflow")
                        ELSE Ok(<<final_quote.v, quote_amount_out, min_quote.v>>)

calculate_quote_amount_out(user_quote_amount_out, lp_fee_bps, protocol_fee_bps, coin_creator_fee_bps) ==
    LET lp_protocol   == CheckedAdd64(lp_fee_bps, protocol_fee_bps)
        total_fee_bps == IF lp_protocol.some
                         THEN CheckedAdd64(lp_protocol.v, coin_creator_fee_bps)
                         ELSE None
    IN  IF ~total_fee_bps.some THEN Err("Fee addition overflow")
        ELSE
        LET denominator == CheckedSub64(FromInt(MAX_FEE_BASIS_POINTS), total_fee_bps.v)
        IN  IF ~denominator.some THEN Err("Fee subtraction underflow")
            ELSE
            LET numerator == CheckedMul128(user_quote_amount_out,
                                           FromInt(MAX_FEE_BASIS_POINTS))
            IN  IF ~numerator.some THEN Err("Quote calculation overflow")
                ELSE
                LET quotient == U128DivCeil(numerator.v, denominator.v)
                IN  IF quotient.tag # "Ok" THEN quotient
                    ELSE Ok(AsU64(quotient.val))

sell_quote_input(quote, slippage, base_reserve, quote_reserve, lp_fee_bps, protocol_fee_bps, coin_creator_fee_bps, coin_creator_is_default, checks) ==
    IF base_reserve = << >> \/ quote_reserve = << >>
    THEN Err("Invalid input: 'base_reserve' or 'quote_reserve' cannot be zero")
    ELSE IF Less(quote_reserve, quote)
    THEN Err("Cannot receive more quote tokens than the pool quote reserves")
    ELSE
    LET creator_bps == IF coin_creator_is_default THEN << >> ELSE coin_creator_fee_bps
        raw_quote   == calculate_quote_amount_out(quote, lp_fee_bps, protocol_fee_bps,
                                                  creator_bps)
    IN  IF raw_quote.tag # "Ok" THEN raw_quote
        ELSE IF Leq(quote_reserve, raw_quote.val)
        THEN Err("Invalid input: Desired quote amount exceeds available reserve")
        ELSE
        LET numerator   == CheckedMul128(base_reserve, raw_quote.val)
            denominator == CheckedSub128(quote_reserve, raw_quote.val)
        IN  IF ~numerator.some THEN Err("Base calculation overflow")
            ELSE IF ~denominator.some THEN Err("Quote subtraction underflow")
            ELSE
            LET quotient        == U128DivCeil(numerator.v, denominator.v)
                base_amount_in  == AsU64(quotient.val)
                slippage_factor == SubSlippageFactor(slippage, checks)
            IN  IF quotient.tag # "Ok" THEN quotient
                ELSE IF slippage_factor.tag # "Ok" THEN slippage_factor
                ELSE
                LET min_quote == ApplySlippage(quote, slippage_factor.val)
                IN  IF ~min_quote.some THEN Err("Slippage calculation overflow")
                    ELSE Ok(<<raw_quote.val, base_amount_in, min_quote.v>>)

----------------------------------------------------------------------------
(* src/src/utils/amm/deposit.rs and withdraw.rs *)

\* Mutant of deposit_lp_token: no check of total_lp_tokens == 0 before the divisions
deposit_lp_token_no_supply_check(lp_token, slippage, base_reserve, quote_reserve, total_lp_tokens) ==
    IF slippage > 100 THEN Err("Slippage must be between 0 and 100")
    ELSE
    LET base_product  == CheckedMul128(base_reserve, lp_token)
        base_share    == U128DivCeil(base_product.v, total_lp_tokens)
        quote_product == CheckedMul128(quote_reserve, lp_token)
        quote_share   == U128DivCeil(quote_product.v, total_lp_tokens)
    IN  IF ~base_product.some THEN Err("Multiplication overflow")
        ELSE IF base_share.tag # "Ok" THEN base_share
        ELSE IF ~quote_product.some THEN Err("Multiplication overflow")
        ELSE IF quote_share.tag # "Ok" THEN quote_share
        ELSE
        LET base_amount_in  == AsU64(base_share.val)
            quote_amount_in == AsU64(quote_share.val)
            slippage_factor == DepositSlippageFactor(slippage)
            max_base        == ApplySlippage(base_amount_in, slippage_factor)
            max_quote       == ApplySlippage(quote_amount_in, slippage_factor)
        IN  IF ~max_base.some \/ ~max_quote.some THEN Err("Multiplication overflow")
            ELSE Ok(<<max_base.v, max_quote.v>>)

deposit_lp_token(lp_token, slippage, base_reserve, quote_reserve, total_lp_tokens) ==
    IF total_lp_tokens = << >> THEN Err("Total LP tokens cannot be zero")
    ELSE IF slippage > 100 THEN Err("Slippage must be between 0 and 100")
    ELSE
    LET base_product  == CheckedMul128(base_reserve, lp_token)
        base_share    == U128DivCeil(base_product.v, total_lp_tokens)
        quote_product == CheckedMul128(quote_reserve, lp_token)
        quote_share   == U128DivCeil(quote_product.v, total_lp_tokens)
    IN  IF ~base_product.some THEN Err("Multiplication overflow")
        ELSE IF base_share.tag # "Ok" THEN base_share
        ELSE IF ~quote_product.some THEN Err("Multiplication overflow")
        ELSE IF quote_share.tag # "Ok" THEN quote_share
        ELSE
        LET base_amount_in  == AsU64(base_share.val)
            quote_amount_in == AsU64(quote_share.val)
            slippage_factor == DepositSlippageFactor(slippage)
            max_base        == ApplySlippage(base_amount_in, slippage_factor)
            max_quote       == ApplySlippage(quote_amount_in, slippage_factor)
        IN  IF ~max_base.some \/ ~max_quote.some THEN Err("Multiplication overflow")
            ELSE Ok(<<max_base.v, max_quote.v>>)

withdraw_lp_token(lp_token, slippage, base_reserve, quote_reserve, total_lp_tokens, checks) ==
    IF lp_token = << >> \/ total_lp_tokens = << >>
    THEN Err("LP token or total LP tokens cannot be zero")
    ELSE IF slippage > 100 THEN Err("Slippage must be between 0 and 100")
    ELSE
    LET base_product  == CheckedMul128(base_reserve, lp_token)
        base_share    == CheckedDiv128(base_product.v, total_lp_tokens)
        quote_product == CheckedMul128(quote_reserve, lp_token)
        quote_share   == CheckedDiv128(quote_product.v, total_lp_tokens)
    IN  IF ~base_product.some THEN Err("Multiplication overflow")
        ELSE IF ~base_share.some THEN Err("Division by zero")
        ELSE IF ~quote_product.some THEN Err("Multiplication overflow")
        ELSE IF ~quote_share.some THEN Err("Division by zero")
        ELSE
        LET base  == AsU64(base_share.v)
            quote == AsU64(quote_share.v)
            slippage_factor == SubSlippageFactor(slippage, checks)
        IN  IF slippage_factor.tag # "Ok" THEN slippage_factor
            ELSE
            LET min_base  == ApplySlippage(base, slippage_factor.val)
                min_quote == ApplySlippage(quote, slippage_factor.val)
            IN  IF ~min_base.some \/ ~min_quote.some THEN Err("Multiplication overflow")
                ELSE Ok(<<base, quote, min_base.v, min_quote.v>>)

----------------------------------------------------------------------------
(* The quoting engine as a state machine: one call of one function on      *)
(* inputs drawn from the sets below, then its return value.                *)

VARIABLES pc, call, ret

vars == <<pc, call, ret>>

\* Amounts 0 .. MaxSmall are drawn next to the fixed amounts below.
MaxSmall == 2

SmallAmounts == {FromInt(i) : i \in 0 .. MaxSmall}
Amounts == SmallAmounts \cup {FromInt(1000), U64Max}
Reserves == {<< >>, FromInt(3), FromInt(1000000), U64Max}
LpSupplies == {<< >>, FromInt(1), FromInt(1000), U64Max}
Slippages == {0, 1, 100, 101, 255}
LpFeeBps == {<< >>, FromInt(30), FromInt(MAX_FEE_BASIS_POINTS)}
ProtocolFeeBps == {<< >>, FromInt(5)}
\* <<coin_creator_fee_bps, coin_creator == Pubkey::default()>>
Creators == {<<FromInt(5), TRUE>>, <<FromInt(5), FALSE>>}
\* The liquidity functions are also called on a pool of 10_000_000 / 10_000_000
\* with 1_000_000 LP tokens, for 100_000 LP tokens
LpAmounts == Amounts \cup {FromInt(100000)}
LpReserves == Reserves \cup {FromInt(10000000)}
LpTotals == LpSupplies \cup {FromInt(1000000)}
FeeAmounts == Amounts \cup {FromInt(9999), FromInt(1000000), Div(U64Max, FromInt(30))}
FeeBps == LpFeeBps \cup ProtocolFeeBps \cup {FromInt(1), FromInt(MAX_FEE_BASIS_POINTS + 1)}

\* ret.val holds the returned tuple; a single returned amount is held as a 1-tuple
Returned(r) == IF r.tag = "Ok" THEN Ok(<<r.val>>) ELSE r

Init ==
    /\ pc = "idle"
    /\ call = [fn |-> "none"]
    /\ ret = Ok(<< >>)

Fee ==
    /\ pc = "idle"
    /\ \E amount \in FeeAmounts, fee_bps \in FeeBps :
        /\ call' = [fn |-> "fee", amount |-> amount, fee_bps |-> fee_bps]
        /\ ret' = Returned(fee(amount, fee_bps))
    /\ pc' = "done"

BuyBaseInput ==
    /\ pc = "idle"
    /\ \E base \in Amounts, slippage \in Slippages, base_reserve \in Reserves,
          quote_reserve \in Reserves, lp_fee_bps \in LpFeeBps,
          protocol_fee_bps \in ProtocolFeeBps :
        /\ call' = [fn |-> "buy_base_input", base |-> base, slippage |-> slippage,
                    base_reserve |-> base_reserve, quote_reserve |-> quote_reserve,
                    lp_fee_bps |-> lp_fee_bps, protocol_fee_bps |-> protocol_fee_bps]
        /\ ret' = buy_base_input(base, slippage, base_reserve, quote_reserve,
                                 lp_fee_bps, protocol_fee_bps)
    /\ pc' = "done"

BuyQuoteInput ==
    /\ pc = "idle"
    /\ \E quote \in Amounts, slippage \in Slippages, base_reserve \in Reserves,
          quote_reserve \in Reserves, lp_fee_bps \in LpFeeBps,
          protocol_fee_bps \in ProtocolFeeBps :
        /\ call' = [fn |-> "buy_quote_input", quote |-> quote, slippage |-> slippage,
                    base_reserve |-> base_reserve, quote_reserve |-> quote_reserve,
                    lp_fee_bps |-> lp_fee_bps, protocol_fee_bps |-> protocol_fee_bps]
        /\ ret' = buy_quote_input(quote, slippage, base_reserve, quote_reserve,
                                  lp_fee_bps, protocol_fee_bps)
    /\ pc' = "done"

SellBaseInput ==
    /\ pc = "idle"
    /\ \E base \in Amounts, slippage \in Slippages, base_reserve \in Reserves,
          quote_reserve \in Reserves, lp_fee_bps \in LpFeeBps,
          protocol_fee_bps \in ProtocolFeeBps, creator \in Creators,
          checks \in BOOLEAN :
        /\ call' = [fn |-> "sell_base_input", base |-> base, slippage |-> slippage,
                    base_reserve |-> base_reserve, quote_reserve |-> quote_reserve,
                    lp_fee_bps |-> lp_fee_bps, protocol_fee_bps |-> protocol_fee_bps,
                    coin_creator_fee_bps |-> creator[1],
                    coin_creator_is_default |-> creator[2]]
        /\ ret' = sell_base_input(base, slippage, base_reserve, quote_reserve,
                                  lp_fee_bps, protocol_fee_bps, creator[1], creator[2],
                                  checks)
    /\ pc' = "done"

SellQuoteInput ==
    /\ pc = "idle"
    /\ \E quote \in Amounts, slippage \in Slippages, base_reserve \in Reserves,
          quote_reserve \in Reserves, lp_fee_bps \in LpFeeBps,
          protocol_fee_bps \in ProtocolFeeBps, creator \in Creators,
          checks \in BOOLEAN :
        /\ call' = [fn |-> "sell_quote_input", quote |-> quote, slippage |-> slippage,
                    base_reserve |-> base_reserve, quote_reserve |-> quote_reserve,
                    lp_fee_bps |-> lp_fee_bps, protocol_fee_bps |-> protocol_fee_bps,
                    coin_creator_fee_bps |-> creator[1],
                    coin_creator_is_default |-> creator[2]]
        /\ ret' = sell_quote_input(quote, slippage, base_reserve, quote_reserve,
                                   lp_fee_bps, protocol_fee_bps, creator[1], creator[2],
                                   checks)
    /\ pc' = "done"

DepositLpToken ==
    /\ pc = "idle"
    /\ \E lp_token \in Amounts, slippage \in Slippages, base_reserve \in Reserves,
          quote_reserve \in Reserves, total_lp_tokens \in LpSupplies :
        /\ call' = [fn |-> "deposit_lp_token", lp_token |-> lp_token,
                    slippage |-> slippage, base_reserve |-> base_reserve,
                    quote_reserve |-> quote_reserve, total_lp_tokens |-> total_lp_tokens]
        /\ ret' = deposit_lp_token(lp_token, slippage, base_reserve, quote_reserve,
                                   total_lp_tokens)
    /\ pc' = "done"

WithdrawLpToken ==
    /\ pc = "idle"
    /\ \E lp_token \in LpAmounts, slippage \in Slippages, base_reserve \in LpReserves,
          quote_reserve \in LpReserves, total_lp_tokens \in LpTotals,
          checks \in BOOLEAN :
        /\ call' = [fn |-> "withdraw_lp_token", lp_token |-> lp_token,
                    slippage |-> slippage, base_reserve |-> base_reserve,
                    quote_reserve |-> quote_reserve, total_lp_tokens |-> total_lp_tokens]
        /\ ret' = withdraw_lp_token(lp_token, slippage, base_reserve, quote_reserve,
                                    total_lp_tokens, checks)
    /\ pc' = "done"

Next ==
    \/ Fee
    \/ BuyBaseInput
    \/ BuyQuoteInput
    \/ SellBaseInput
    \/ SellQuoteInput
    \/ DepositLpToken
    \/ WithdrawLpToken

Spec == Init /\ [][Next]_vars

----------------------------------------------------------------------------
(* src/src/common/stream.rs: the event decoder.  A byte is an integer in   *)
(* 0 .. 255.  A base64 text is the sequence of its characters, each given  *)
(* by its value 0 .. 63 in the standard alphabet, B64Pad for '=' and       *)
(* B64Other for a character outside the alphabet.                          *)

B64Pad == 64
B64Other == 65
\* A character of a log line that is white space
B64Space == 66

\* The standard engine's encoding, with padding
RECURSIVE B64Encode(_)
B64Encode(bytes) ==
    IF bytes = << >> THEN << >>
    ELSE LET n == Len(bytes)
             x == bytes[1] * 65536 + (IF n >= 2 THEN bytes[2] * 256 ELSE 0)
                    + (IF n >= 3 THEN bytes[3] ELSE 0)
         IN  <<x \div 262144, (x \div 4096) % 64,
               IF n >= 2 THEN (x \div 64) % 64 ELSE B64Pad,
               IF n >= 3 THEN x % 64 ELSE B64Pad>>
             \o (IF n > 3 THEN B64Encode(SubSeq(bytes, 4, n)) ELSE << >>)

\* The bytes of the complete groups i, i + 4, ... of a well-formed text
RECURSIVE B64Bytes(_, _)
B64Bytes(data, i) ==
    IF i > Len(data) THEN << >>
    ELSE LET s3 == IF data[i + 2] = B64Pad THEN 0 ELSE data[i + 2]
             s4 == IF data[i + 3] = B64Pad THEN 0 ELSE data[i + 3]
             x  == data[i] * 262144 + data[i + 1] * 4096 + s3 * 64 + s4
             b  == <<x \div 65536, (x \div 256) % 256, x % 256>>
             k  == IF data[i + 2] = B64Pad THEN 1
                   ELSE IF data[i + 3] = B64Pad THEN 2 ELSE 3
         IN  SubSeq(b, 1, k) \o B64Bytes(data, i + 4)

\* general_purpose::STANDARD.decode: padding is required and canonical, and the
\* bits of the last character that belong to no byte must be zero
B64Decode(data) ==
    LET n == Len(data)
    IN  IF n % 4 # 0 THEN Err("base64: invalid length or padding")
        ELSE IF \E i \in 1 .. n : data[i] > B64Pad THEN Err("base64: invalid byte")
        ELSE IF \E i \in 1 .. n : data[i] = B64Pad /\ i < n - 1
        THEN Err("base64: invalid byte")
        ELSE IF n > 0 /\ data[n - 1] = B64Pad /\ data[n] # B64Pad
        THEN Err("base64: invalid byte")
        ELSE IF n > 0 /\ data[n - 1] = B64Pad /\ data[n - 2] % 16 # 0
        THEN Err("base64: invalid last symbol")
        ELSE IF n > 0 /\ data[n - 1] # B64Pad /\ data[n] = B64Pad /\ data[n - 1] % 4 # 0
        THEN Err("base64: invalid last symbol")
        ELSE Ok(B64Bytes(data, 1))

\* String::from_utf8 accepts exactly the well-formed UTF-8 sequences
RECURSIVE Utf8Valid(_, _)
Utf8Valid(s, i) ==
    LET n == Len(s)
        Cont(j) == j <= n /\ s[j] >= 128 /\ s[j] <= 191
        In(j, lo, hi) == j <= n /\ s[j] >= lo /\ s[j] <= hi
        b == s[i]
    IN  IF i > n THEN TRUE
        ELSE IF b < 128 THEN Utf8Valid(s, i + 1)
        ELSE IF b >= 194 /\ b <= 223 THEN Cont(i + 1) /\ Utf8Valid(s, i + 2)
        ELSE IF b >= 224 /\ b <= 239
        THEN /\ IF b = 224 THEN In(i + 1, 160, 191)
                ELSE IF b = 237 THEN In(i + 1, 128, 159)
                ELSE Cont(i + 1)
             /\ Cont(i + 2) /\ Utf8Valid(s, i + 3)
        ELSE IF b >= 240 /\ b <= 244
        THEN /\ IF b = 240 THEN In(i + 1, 144, 191)
                ELSE IF b = 244 THEN In(i + 1, 128, 143)
                ELSE Cont(i + 1)
             /\ Cont(i + 2) /\ Cont(i + 3) /\ Utf8Valid(s, i + 4)
        ELSE FALSE

\* Borsh widths of the fixed-width field types
BorshWidth(type) ==
    CASE type = "Pubkey" -> 32
      [] type = "u64" -> 8
      [] type = "i64" -> 8
      [] type = "bool" -> 1

\* BorshDeserialize of the fields i .. Len(schema) from bytes[pos ..]: the field
\* values read (each as its bytes; a String as its content) and the position
\* after them, or a failure
RECURSIVE BorshRead(_, _, _, _)
BorshRead(schema, i, bytes, pos) ==
    IF i > Len(schema) THEN [ok |-> TRUE, fields |-> << >>, pos |-> pos]
    ELSE
    LET left == Len(bytes) - pos + 1
        str  == schema[i] = "String"
        \* u32 little-endian length prefix of a String
        slen == bytes[pos] + 256 * bytes[pos + 1] + 65536 * bytes[pos + 2]
        big  == bytes[pos + 3] # 0
        head == IF str THEN 4 ELSE BorshWidth(schema[i])
        bad  == [ok |-> FALSE, fields |-> << >>, pos |-> pos]
    IN  IF left < head THEN bad
        ELSE IF str /\ (big \/ left < 4 + slen) THEN bad
        ELSE
        LET width == IF str THEN 4 + slen ELSE head
            value == IF str THEN SubSeq(bytes, pos + 4, pos + 3 + slen)
                     ELSE SubSeq(bytes, pos, pos + width - 1)
            rest  == BorshRead(schema, i + 1, bytes, pos + width)
        IN  IF str /\ ~Utf8Valid(value, 1) THEN bad
            ELSE IF schema[i] = "bool" /\ value[1] > 1 THEN bad
            ELSE IF ~rest.ok THEN bad
            ELSE [ok |-> TRUE, fields |-> <<value>> \o rest.fields, pos |-> rest.pos]

\* T::try_from_slice: every field read and no byte left over
try_from_slice(schema, bytes) ==
    LET r == BorshRead(schema, 1, bytes, 1)
    IN  IF r.ok /\ r.pos = Len(bytes) + 1 THEN [ok |-> TRUE, fields |-> r.fields]
        ELSE [ok |-> FALSE, fields |-> << >>]

\* The field types of the four event records, in declaration order
EventSchema(kind) ==
    CASE kind = "Create" ->
            <<"String", "String", "String", "Pubkey", "Pubkey", "Pubkey", "Pubkey",
              "i64", "u64", "u64", "u64", "u64">>
      [] kind = "Trade" ->
            <<"Pubkey", "u64", "u64", "bool", "Pubkey", "i64", "u64", "u64", "u64",
              "u64", "Pubkey", "u64", "u64", "Pubkey", "u64", "u64">>
      [] kind = "Complete" -> <<"Pubkey", "Pubkey", "Pubkey", "i64">>
      [] kind = "SetParams" -> <<"Pubkey", "u64", "u64", "u64", "u64", "u64">>

\* The arms of the match in parse_event, in order
EventArms == <<"Create", "Trade", "Complete", "SetParams">>

\* Mutant of EventDiscriminator: the Trade arm carries the Create discriminator
EventDiscriminator_trade_as_create(kind) ==
    CASE kind = "Create" -> <<27, 114, 169, 77, 222, 235, 99, 118>>
      [] kind = "Trade" -> <<27, 114, 169, 77, 222, 235, 99, 118>>
      [] kind = "Complete" -> <<95, 114, 97, 156, 212, 46, 152, 8>>
      [] kind = "SetParams" -> <<223, 195, 159, 246, 62, 48, 143, 131>>

EventDiscriminator(kind) ==
    CASE kind = "Create" -> <<27, 114, 169, 77, 222, 235, 99, 118>>
      [] kind = "Trade" -> <<189, 219, 127, 211, 78, 230, 97, 238>>
      [] kind = "Complete" -> <<95, 114, 97, 156, 212, 46, 152, 8>>
      [] kind = "SetParams" -> <<223, 195, 159, 246, 62, 48, 143, 131>>

\* The record named in the error of a failed try_from_slice
EventRecordName(kind) ==
    CASE kind = "Create" -> "CreateEvent"
      [] kind = "Trade" -> "TradeEvent"
      [] kind = "Complete" -> "CompleteEvent"
      [] kind = "SetParams" -> "SetParamsEvent"

\* Result<PumpFunEvent, Box<dyn Error>>; msg is the error text, as the pieces it
\* is formatted from
EventOk(kind, fields) == [tag |-> "Ok", kind |-> kind, fields |-> fields, msg |-> << >>]
EventErr(msg) == [tag |-> "Err", kind |-> "", fields |-> << >>, msg |-> msg]

parse_event(signature, data) ==
    LET decoded == B64Decode(data)
    IN  IF decoded.tag # "Ok" THEN EventErr(<<decoded.msg>>)
        ELSE IF Len(decoded.val) < 8
        THEN EventErr(<<"Data too short to contain discriminator", data>>)
        ELSE
        LET discriminator == SubSeq(decoded.val, 1, 8)
            body          == SubSeq(decoded.val, 9, Len(decoded.val))
            matching      == {i \in 1 .. Len(EventArms) :
                                EventDiscriminator(EventArms[i]) = discriminator}
        IN  IF matching = {} THEN EventErr(<<"Unknown event", signature, data>>)
            ELSE
            LET arm    == CHOOSE i \in matching : \A j \in matching : i <= j
                kind   == EventArms[arm]
                record == try_from_slice(EventSchema(kind), body)
            IN  IF record.ok THEN EventOk(kind, record.fields)
                ELSE EventErr(<<"Failed to decode", EventRecordName(kind)>>)

----------------------------------------------------------------------------
(* The event decoder as a state machine: one call of parse_event on a      *)
(* (signature, data) pair, then its result.                                *)

Rep(b, n) == [i \in 1 .. n |-> b]

BorshString(s) == <<Len(s), 0, 0, 0>> \o s

\* Serialized records: well formed, and malformed in one way each
TradeBody(is_buy) == Rep(7, 48) \o <<is_buy>> \o Rep(9, 168)
CompleteBody == Rep(5, 104)
SetParamsBody == Rep(6, 72)
CreateBody(name) == BorshString(name) \o BorshString(<<80, 70>>) \o BorshString(<< >>) \o Rep(8, 168)

EventBodies ==
    {<< >>, TradeBody(0), TradeBody(1), TradeBody(2), TradeBody(1) \o <<0>>,
     CompleteBody, SubSeq(CompleteBody, 1, 103), SetParamsBody,
     CreateBody(<<112, 117, 109, 112>>), CreateBody(<<195, 169>>),
     CreateBody(<<112, 255>>), CreateBody(<<195>>)}

\* The four discriminators, one with its last byte changed, and an unused one
EventPrefixes ==
    {EventDiscriminator(EventArms[i]) : i \in 1 .. Len(EventArms)}
    \cup {<<27, 114, 169, 77, 222, 235, 99, 119>>, Rep(0, 8)}

\* Decoded lengths 0 .. MaxShort are too short to hold a discriminator
MaxShort == 7

EventPayloads ==
    {p \o b : p \in EventPrefixes, b \in EventBodies}
    \cup {SubSeq(EventDiscriminator("Trade"), 1, k) : k \in 0 .. MaxShort}

\* Texts that are not the base64 of anything: a missing last character, a
\* character outside the alphabet, and nonzero bits after the last byte
B64Damaged(text) ==
    LET n == Len(text)
    IN  IF n = 0 THEN {<<B64Other>>}
        ELSE {SubSeq(text, 1, n - 1), <<B64Other>> \o SubSeq(text, 2, n)}
             \cup (IF text[n] = B64Pad /\ text[n - 1] # B64Pad
                   THEN {SubSeq(text, 1, n - 2) \o <<text[n - 1] + 1, B64Pad>>}
                   ELSE { })

EventData ==
    UNION {{B64Encode(p)} \cup B64Damaged(B64Encode(p)) : p \in EventPayloads}

Signatures == {"5VERv8", "3Bxs4h"}

InitEvents ==
    /\ pc = "idle"
    /\ call = [fn |-> "none"]
    /\ ret = EventErr(<< >>)

ParseEvent ==
    /\ pc = "idle"
    /\ \E signature \in Signatures, data \in EventData :
        /\ call' = [fn |-> "parse_event", signature |-> signature, data |-> data]
        /\ ret' = parse_event(signature, data)
    /\ pc' = "done"

NextEvents == ParseEvent

SpecEvents == InitEvents /\ [][NextEvents]_vars

----------------------------------------------------------------------------
(* src/src/instructions/amm: the instruction encoder.                      *)
(*                                                                         *)
(* A Pubkey supplied by the caller is <<"key", its 32 bytes>>; a well-known *)
(* program or account id of the constants module is <<"id", its name>>; an *)
(* address returned by Pubkey::find_program_address is                     *)
(* <<"pda", program id, seeds>>: the derivation is a pure function of the  *)
(* program id and the seeds, taken here to be free of collisions.          *)

Key(bytes) == <<"key", bytes>>
Id(name) == <<"id", name>>
find_program_address(seeds, program_id) == <<"pda", program_id, seeds>>

PUMPAMM == Id("PUMPAMM")
SYSTEM_PROGRAM == Id("SYSTEM_PROGRAM")
TOKEN_PROGRAM == Id("TOKEN_PROGRAM")
TOKEN_2022_PROGRAM == Id("TOKEN_2022_PROGRAM")
ASSOCIATED_TOKEN_PROGRAM == Id("ASSOCIATED_TOKEN_PROGRAM")

\* src/src/amm/mod.rs: the program-derived addresses
get_global_config_pda == find_program_address(<<"GLOBAL_CONFIG_SEED">>, PUMPAMM)

\* index.to_le_bytes() of a u16
U16LE_big_endian(n) == <<n \div 256, n % 256>>
U16LE(n) == <<n % 256, n \div 256>>

get_pool_pda(index, owner, base_mint, quote_mint) ==
    find_program_address(<<"POOL_SEED", U16LE(index), owner, base_mint, quote_mint>>,
                         PUMPAMM)

get_lp_mint_pda(pool) == find_program_address(<<"POOL_LP_MINT_SEED", pool>>, PUMPAMM)

get_event_authority_pda == find_program_address(<<"EVENT_AUTHORITY_SEED">>, PUMPAMM)

get_coin_creator_vault_authority_pda(coin_creator) ==
    find_program_address(<<"CREATOR_VAULT", coin_creator>>, PUMPAMM)

\* spl_associated_token_account: the address derived from the wallet, the token
\* program and the mint under the associated-token program
get_associated_token_address_with_program_id(wallet, mint, token_program) ==
    find_program_address(<<wallet, token_program, mint>>, ASSOCIATED_TOKEN_PROGRAM)

\* ... and with the SPL Token program as the token program
get_associated_token_address(wallet, mint) ==
    get_associated_token_address_with_program_id(wallet, mint, TOKEN_PROGRAM)

\* AccountMeta::new (writable) and AccountMeta::new_readonly
AccountMetaNew(pubkey, is_signer) ==
    [pubkey |-> pubkey, is_signer |-> is_signer, is_writable |-> TRUE]
AccountMetaReadonly(pubkey, is_signer) ==
    [pubkey |-> pubkey, is_signer |-> is_signer, is_writable |-> FALSE]

\* Instruction::new_with_bytes
Instruction(program_id, data, accounts) ==
    [program_id |-> program_id, data |-> data, accounts |-> accounts]

\* The least significant n bytes of a, least significant first
RECURSIVE LEBytes(_, _)
LEBytes(a, n) ==
    IF n = 0 THEN << >>
    ELSE LET low == Mod(a, <<256>>)
         IN  <<IF low = << >> THEN 0 ELSE low[1]>> \o LEBytes(Div(a, <<256>>), n - 1)

\* Mutant of U64LE: the eight bytes most significant first
U64LE_big_endian(a) == LET b == LEBytes(a, 8) IN [i \in 1 .. 8 |-> b[9 - i]]

\* BorshSerialize of a u64 and of a Pubkey
U64LE(a) == LEBytes(a, 8)
PubkeyBytes(pubkey) == pubkey[2]

CreatePool_DISCRIMINATOR == <<233, 146, 209, 142, 207, 104, 64, 188>>

CreatePoolData(args) ==
    CreatePool_DISCRIMINATOR
    \o U16LE(args.index) \o U64LE(args.base_amount_in) \o U64LE(args.quote_amount_in)
    \o PubkeyBytes(args.coin_creator)

Buy_DISCRIMINATOR == <<102, 6, 61, 18, 1, 218, 235, 234>>

BuyData(args) ==
    Buy_DISCRIMINATOR
    \o U64LE(args.base_amount_out) \o U64LE(args.max_quote_amount_in)

Sell_DISCRIMINATOR == <<51, 230, 133, 164, 1, 127, 131, 173>>

SellData(args) ==
    Sell_DISCRIMINATOR
    \o U64LE(args.base_amount_in) \o U64LE(args.min_quote_amount_out)

Deposit_DISCRIMINATOR == <<242, 35, 198, 137, 82, 225, 242, 182>>

DepositData(args) ==
    Deposit_DISCRIMINATOR
    \o U64LE(args.lp_token_amount_out) \o U64LE(args.max_base_amount_in)
    \o U64LE(args.max_quote_amount_in)

Withdraw_DISCRIMINATOR == <<183, 18, 70, 156, 148, 109, 161, 34>>

WithdrawData(args) ==
    Withdraw_DISCRIMINATOR
    \o U64LE(args.lp_token_amount_in) \o U64LE(args.min_base_amount_out)
    \o U64LE(args.min_quote_amount_out)

ExtendAccount_DISCRIMINATOR == <<234, 102, 194, 203, 150, 72, 62, 229>>

ExtendAccountData == ExtendAccount_DISCRIMINATOR

create_pool(creator, base_mint, quote_mint, base_token_program, quote_token_program, args) ==
    LET pool    == get_pool_pda(args.index, creator, base_mint, quote_mint)
        lp_mint == get_lp_mint_pda(pool)
    IN  Instruction(PUMPAMM, CreatePoolData(args),
          <<AccountMetaNew(pool, FALSE),
            AccountMetaReadonly(get_global_config_pda, FALSE),
            AccountMetaNew(creator, TRUE),
            AccountMetaReadonly(base_mint, FALSE),
            AccountMetaReadonly(quote_mint, FALSE),
            AccountMetaNew(lp_mint, FALSE),
            AccountMetaNew(get_associated_token_address_with_program_id(
                               creator, base_mint, base_token_program), FALSE),
            AccountMetaNew(get_associated_token_address_with_program_id(
                               creator, quote_mint, quote_token_program), FALSE),
            AccountMetaNew(get_associated_token_address_with_program_id(
                               creator, lp_mint, TOKEN_2022_PROGRAM), FALSE),
            AccountMetaNew(get_associated_token_address_with_program_id(
                               pool, base_mint, base_token_program), FALSE),
            AccountMetaNew(get_associated_token_address_with_program_id(
                               pool, quote_mint, quote_token_program), FALSE),
            AccountMetaReadonly(SYSTEM_PROGRAM, FALSE),
            AccountMetaReadonly(TOKEN_2022_PROGRAM, FALSE),
            AccountMetaReadonly(base_token_program, FALSE),
            AccountMetaReadonly(quote_token_program, FALSE),
            AccountMetaReadonly(ASSOCIATED_TOKEN_PROGRAM, FALSE),
            AccountMetaReadonly(get_event_authority_pda, FALSE),
            AccountMetaReadonly(PUMPAMM, FALSE)>>)

buy(user, pool, base_mint, quote_mint, base_token_program, quote_token_program, protocol_fee_recipient, args) ==
    Instruction(PUMPAMM, BuyData(args),
      <<AccountMetaNew(pool, FALSE),
        AccountMetaNew(user, TRUE),
        AccountMetaReadonly(get_global_config_pda, FALSE),
        AccountMetaReadonly(base_mint, FALSE),
        AccountMetaReadonly(quote_mint, FALSE),
        AccountMetaNew(get_associated_token_address(user, base_mint), FALSE),
        AccountMetaNew(get_associated_token_address(user, quote_mint), FALSE),
        AccountMetaNew(get_associated_token_address_with_program_id(
                           pool, base_mint, base_token_program), FALSE),
        AccountMetaNew(get_associated_token_address_with_program_id(
                           pool, quote_mint, quote_token_program), FALSE),
        AccountMetaReadonly(protocol_fee_recipient, FALSE),
        AccountMetaNew(get_associated_token_address_with_program_id(
                           protocol_fee_recipient, quote_mint, quote_token_program), FALSE),
        AccountMetaReadonly(base_token_program, FALSE),
        AccountMetaReadonly(quote_token_program, FALSE),
        AccountMetaReadonly(SYSTEM_PROGRAM, FALSE),
        AccountMetaReadonly(ASSOCIATED_TOKEN_PROGRAM, FALSE),
        AccountMetaReadonly(get_event_authority_pda, FALSE),
        AccountMetaReadonly(PUMPAMM, FALSE)>>)

sell(user, pool, base_mint, quote_mint, base_token_program, quote_token_program, protocol_fee_recipient, coin_creator, args) ==
    LET coin_creator_vault_authority == get_coin_creator_vault_authority_pda(coin_creator)
    IN  Instruction(PUMPAMM, SellData(args),
          <<AccountMetaNew(pool, FALSE),
            AccountMetaNew(user, TRUE),
            AccountMetaReadonly(get_global_config_pda, FALSE),
            AccountMetaReadonly(base_mint, FALSE),
            AccountMetaReadonly(quote_mint, FALSE),
            AccountMetaNew(get_associated_token_address_with_program_id(
                               user, base_mint, base_token_program), FALSE),
            AccountMetaNew(get_associated_token_address_with_program_id(
                               user, quote_mint, quote_token_program), FALSE),
            AccountMetaNew(get_associated_token_address_with_program_id(
                               pool, base_mint, base_token_program), FALSE),
            AccountMetaNew(get_associated_token_address_with_program_id(
                               pool, quote_mint, quote_token_program), FALSE),
            AccountMetaReadonly(protocol_fee_recipient, FALSE),
            AccountMetaNew(get_associated_token_address_with_program_id(
                               protocol_fee_recipient, quote_mint, quote_token_program),
                           FALSE),
            AccountMetaReadonly(base_token_program, FALSE),
            AccountMetaReadonly(quote_token_program, FALSE),
            AccountMetaReadonly(SYSTEM_PROGRAM, FALSE),
            AccountMetaReadonly(ASSOCIATED_TOKEN_PROGRAM, FALSE),
            AccountMetaReadonly(get_event_authority_pda, FALSE),
            AccountMetaReadonly(PUMPAMM, FALSE),
            AccountMetaNew(get_associated_token_address_with_program_id(
                               coin_creator_vault_authority, quote_mint,
                               quote_token_program), FALSE),
            AccountMetaReadonly(coin_creator_vault_authority, FALSE)>>)

deposit(user, pool, base_mint, quote_mint, base_token_program, quote_token_program, args) ==
    LET lp_mint == get_lp_mint_pda(pool)
    IN  Instruction(PUMPAMM, DepositData(args),
          <<AccountMetaNew(pool, FALSE),
            AccountMetaReadonly(get_global_config_pda, FALSE),
            AccountMetaNew(user, TRUE),
            AccountMetaReadonly(base_mint, FALSE),
            AccountMetaReadonly(quote_mint, FALSE),
            AccountMetaNew(lp_mint, FALSE),
            AccountMetaNew(get_associated_token_address(user, base_mint), FALSE),
            AccountMetaNew(get_associated_token_address(user, quote_mint), FALSE),
            AccountMetaNew(get_associated_token_address_with_program_id(
                               user, lp_mint, TOKEN_2022_PROGRAM), FALSE),
            AccountMetaNew(get_associated_token_address_with_program_id(
                               pool, base_mint, base_token_program), FALSE),
            AccountMetaNew(get_associated_token_address_with_program_id(
                               pool, quote_mint, quote_token_program), FALSE),
            AccountMetaReadonly(TOKEN_PROGRAM, FALSE),
            AccountMetaReadonly(TOKEN_2022_PROGRAM, FALSE),
            AccountMetaReadonly(get_event_authority_pda, FALSE),
            AccountMetaReadonly(PUMPAMM, FALSE)>>)

withdraw(user, pool, base_mint, quote_mint, base_token_program, quote_token_program, args) ==
    LET lp_mint == get_lp_mint_pda(pool)
    IN  Instruction(PUMPAMM, WithdrawData(args),
          <<AccountMetaNew(pool, TRUE),
            AccountMetaReadonly(get_global_config_pda, FALSE),
            AccountMetaNew(user, TRUE),
            AccountMetaReadonly(base_mint, FALSE),
            AccountMetaReadonly(quote_mint, FALSE),
            AccountMetaNew(lp_mint, TRUE),
            AccountMetaNew(get_associated_token_address(user, base_mint), TRUE),
            AccountMetaNew(get_associated_token_address(user, quote_mint), TRUE),
            AccountMetaNew(get_associated_token_address_with_program_id(
                               user, lp_mint, TOKEN_2022_PROGRAM), TRUE),
            AccountMetaNew(get_associated_token_address_with_program_id(
                               pool, base_mint, base_token_program), TRUE),
            AccountMetaNew(get_associated_token_address_with_program_id(
                               pool, quote_mint, quote_token_program), TRUE),
            AccountMetaReadonly(TOKEN_PROGRAM, FALSE),
            AccountMetaReadonly(TOKEN_2022_PROGRAM, FALSE),
            AccountMetaReadonly(get_event_authority_pda, FALSE),
            AccountMetaReadonly(PUMPAMM, FALSE)>>)

extend_account(user, account, args) ==
    Instruction(PUMPAMM, ExtendAccountData,
      <<AccountMetaNew(account, FALSE),
        AccountMetaNew(user, TRUE),
        AccountMetaReadonly(SYSTEM_PROGRAM, FALSE),
        AccountMetaReadonly(get_event_authority_pda, FALSE),
        AccountMetaReadonly(PUMPAMM, FALSE)>>)

----------------------------------------------------------------------------
(* The instruction encoder as a state machine: one call of one builder on  *)
(* arguments drawn from the sets below, then the Instruction it returns.   *)

Wallets == {Key(Rep(1, 32)), Key(Rep(2, 32))}
Pools == {Key(Rep(3, 32))}
Mints == {Key(Rep(4, 32)), Key(Rep(5, 32))}
TokenPrograms == {TOKEN_PROGRAM, TOKEN_2022_PROGRAM}
FeeRecipients == {Key(Rep(6, 32))}
\* Pubkey::default() and another creator
CoinCreators == {Key(Rep(0, 32)), Key(Rep(7, 32))}
ArgAmounts == {<< >>, FromInt(258), U64Max}
PoolIndexes == {0, 258}

InitInstructions ==
    /\ pc = "idle"
    /\ call = [fn |-> "none"]
    /\ ret = Instruction(PUMPAMM, << >>, << >>)

CreatePool ==
    /\ pc = "idle"
    /\ \E creator \in Wallets, base_mint \in Mints, quote_mint \in Mints,
          base_token_program \in TokenPrograms, quote_token_program \in TokenPrograms,
          index \in PoolIndexes, base_amount_in \in ArgAmounts,
          quote_amount_in \in ArgAmounts, coin_creator \in CoinCreators :
        LET args == [index |-> index, base_amount_in |-> base_amount_in,
                     quote_amount_in |-> quote_amount_in, coin_creator |-> coin_creator]
        IN  /\ call' = [fn |-> "create_pool", user |-> creator, base_mint |-> base_mint,
                        quote_mint |-> quote_mint,
                        base_token_program |-> base_token_program,
                        quote_token_program |-> quote_token_program, args |-> args]
            /\ ret' = create_pool(creator, base_mint, quote_mint, base_token_program,
                                  quote_token_program, args)
    /\ pc' = "done"

Buy ==
    /\ pc = "idle"
    /\ \E user \in Wallets, pool \in Pools, base_mint \in Mints, quote_mint \in Mints,
          base_token_program \in TokenPrograms, quote_token_program \in TokenPrograms,
          protocol_fee_recipient \in FeeRecipients, base_amount_out \in ArgAmounts,
          max_quote_amount_in \in ArgAmounts :
        LET args == [base_amount_out |-> base_amount_out,
                     max_quote_amount_in |-> max_quote_amount_in]
        IN  /\ call' = [fn |-> "buy", user |-> user, pool |-> pool,
                        base_mint |-> base_mint, quote_mint |-> quote_mint,
                        base_token_program |-> base_token_program,
                        quote_token_program |-> quote_token_program,
                        protocol_fee_recipient |-> protocol_fee_recipient, args |-> args]
            /\ ret' = buy(user, pool, base_mint, quote_mint, base_token_program,
                          quote_token_program, protocol_fee_recipient, args)
    /\ pc' = "done"

Sell ==
    /\ pc = "idle"
    /\ \E user \in Wallets, pool \in Pools, base_mint \in Mints, quote_mint \in Mints,
          base_token_program \in TokenPrograms, quote_token_program \in TokenPrograms,
          protocol_fee_recipient \in FeeRecipients, coin_creator \in CoinCreators,
          base_amount_in \in ArgAmounts, min_quote_amount_out \in ArgAmounts :
        LET args == [base_amount_in |-> base_amount_in,
                     min_quote_amount_out |-> min_quote_amount_out]
        IN  /\ call' = [fn |-> "sell", user |-> user, pool |-> pool,
                        base_mint |-> base_mint, quote_mint |-> quote_mint,
                        base_token_program |-> base_token_program,
                        quote_token_program |-> quote_token_program,
                        protocol_fee_recipient |-> protocol_fee_recipient,
                        coin_creator |-> coin_creator, args |-> args]
            /\ ret' = sell(user, pool, base_mint, quote_mint, base_token_program,
                           quote_token_program, protocol_fee_recipient, coin_creator,
                           args)
    /\ pc' = "done"

Deposit ==
    /\ pc = "idle"
    /\ \E user \in Wallets, pool \in Pools, base_mint \in Mints, quote_mint \in Mints,
          base_token_program \in TokenPrograms, quote_token_program \in TokenPrograms,
          lp_token_amount_out \in ArgAmounts, max_base_amount_in \in ArgAmounts,
          max_quote_amount_in \in ArgAmounts :
        LET args == [lp_token_amount_out |-> lp_token_amount_out,
                     max_base_amount_in |-> max_base_amount_in,
                     max_quote_amount_in |-> max_quote_amount_in]
        IN  /\ call' = [fn |-> "deposit", user |-> user, pool |-> pool,
                        base_mint |-> base_mint, quote_mint |-> quote_mint,
                        base_token_program |-> base_token_program,
                        quote_token_program |-> quote_token_program, args |-> args]
            /\ ret' = deposit(user, pool, base_mint, quote_mint, base_token_program,
                              quote_token_program, args)
    /\ pc' = "done"

Withdraw ==
    /\ pc = "idle"
    /\ \E user \in Wallets, pool \in Pools, base_mint \in Mints, quote_mint \in Mints,
          base_token_program \in TokenPrograms, quote_token_program \in TokenPrograms,
          lp_token_amount_in \in ArgAmounts, min_base_amount_out \in ArgAmounts,
          min_quote_amount_out \in ArgAmounts :
        LET args == [lp_token_amount_in |-> lp_token_amount_in,
                     min_base_amount_out |-> min_base_amount_out,
                     min_quote_amount_out |-> min_quote_amount_out]
        IN  /\ call' = [fn |-> "withdraw", user |-> user, pool |-> pool,
                        base_mint |-> base_mint, quote_mint |-> quote_mint,
                        base_token_program |-> base_token_program,
                        quote_token_program |-> quote_token_program, args |-> args]
            /\ ret' = withdraw(user, pool, base_mint, quote_mint, base_token_program,
                               quote_token_program, args)
    /\ pc' = "done"

ExtendAccount ==
    /\ pc = "idle"
    /\ \E user \in Wallets, account \in Pools \cup Wallets :
        /\ call' = [fn |-> "extend_account", user |-> user, account |-> account,
                    args |-> [none |-> TRUE]]
        /\ ret' = extend_account(user, account, [none |-> TRUE])
    /\ pc' = "done"

NextInstructions ==
    \/ CreatePool
    \/ Buy
    \/ Sell
    \/ Deposit
    \/ Withdraw
    \/ ExtendAccount

SpecInstructions == InitInstructions /\ [][NextInstructions]_vars

----------------------------------------------------------------------------
(* src/src/amm/mod.rs: the PumpAmm client.                                 *)
(*                                                                         *)
(* What the client reads over RPC is the record rpc: ok says whether the   *)
(* requests succeed, the pool account gives the mints, the coin creator    *)
(* and short (its data is shorter than POOL_ACCOUNT_SIZE), the mint        *)
(* accounts give the token programs, missing says that get_account fails   *)
(* for the payer's token accounts, and create_ata is the build feature     *)
(* "create-ata". The calls in this file pass buy_base_input,               *)
(* buy_quote_input and instructions::amm::buy two, two and one argument    *)
(* more than the functions under src/ declare (the coin creator fee and    *)
(* the coin creator); the functions are applied to the arguments they      *)
(* declare.                                                                *)

NATIVE_MINT == Id("NATIVE_MINT")

\* solana_sdk::system_instruction::transfer
transfer(from_pubkey, to_pubkey, lamports) ==
    Instruction(SYSTEM_PROGRAM, <<2, 0, 0, 0>> \o U64LE(lamports),
                <<AccountMetaNew(from_pubkey, TRUE), AccountMetaNew(to_pubkey, FALSE)>>)

\* spl_token::instruction::sync_native
sync_native(token_program_id, account_pubkey) ==
    Instruction(token_program_id, <<17>>, <<AccountMetaNew(account_pubkey, FALSE)>>)

\* spl_associated_token_account::instruction::create_associated_token_account_idempotent
create_associated_token_account_idempotent(funder, wallet, mint, token_program) ==
    Instruction(ASSOCIATED_TOKEN_PROGRAM, <<1>>,
      <<AccountMetaNew(funder, TRUE),
        AccountMetaNew(get_associated_token_address_with_program_id(
                           wallet, mint, token_program), FALSE),
        AccountMetaReadonly(wallet, FALSE),
        AccountMetaReadonly(mint, FALSE),
        AccountMetaReadonly(SYSTEM_PROGRAM, FALSE),
        AccountMetaReadonly(token_program, FALSE)>>)

\* Mutant of get_with_wsol_instructions: the account is synchronised before it is
\* funded
get_with_wsol_instructions_sync_first(rpc, payer, mint, ata, amount) ==
    IF mint # NATIVE_MINT THEN << >>
    ELSE (IF rpc.create_ata /\ rpc.missing
          THEN <<create_associated_token_account_idempotent(payer, payer, NATIVE_MINT,
                                                            TOKEN_PROGRAM)>>
          ELSE << >>)
         \o (IF amount # << >>
             THEN <<sync_native(TOKEN_PROGRAM, ata), transfer(payer, ata, amount)>>
             ELSE << >>)

get_with_wsol_instructions(rpc, payer, mint, ata, amount) ==
    IF mint # NATIVE_MINT THEN << >>
    ELSE (IF rpc.create_ata /\ rpc.missing
          THEN <<create_associated_token_account_idempotent(payer, payer, NATIVE_MINT,
                                                            TOKEN_PROGRAM)>>
          ELSE << >>)
         \o (IF amount # << >>
             THEN <<transfer(payer, ata, amount), sync_native(TOKEN_PROGRAM, ata)>>
             ELSE << >>)

\* if pool_account.0.data.len() < POOL_ACCOUNT_SIZE, get_extend_account_instruction
ExtendIfShort(rpc, payer, pool) ==
    IF rpc.short THEN <<extend_account(payer, pool, [none |-> TRUE])>> ELSE << >>

get_deposit_instructions(rpc, payer, pool, lp_token, max_base, max_quote) ==
    IF ~rpc.ok THEN Err("SolanaClientError")
    ELSE
    LET lp_mint == get_lp_mint_pda(pool)
        user_quote_token_account ==
            get_associated_token_address_with_program_id(payer, rpc.quote_mint,
                                                         rpc.quote_token_program)
    IN  Ok(get_with_wsol_instructions(rpc, payer, rpc.quote_mint,
                                      user_quote_token_account, max_quote)
           \o ExtendIfShort(rpc, payer, pool)
           \o (IF rpc.missing
               THEN <<create_associated_token_account_idempotent(
                          payer, payer, lp_mint, TOKEN_2022_PROGRAM)>>
               ELSE << >>)
           \o <<deposit(payer, pool, rpc.base_mint, rpc.quote_mint,
                        rpc.base_token_program, rpc.quote_token_program,
                        [lp_token_amount_out |-> lp_token,
                         max_base_amount_in |-> max_base,
                         max_quote_amount_in |-> max_quote])>>)

get_withdraw_instructions(rpc, payer, pool, lp_token_amount_in, min_base_amount_out, min_quote_amount_out) ==
    IF ~rpc.ok THEN Err("SolanaClientError")
    ELSE
    Ok(ExtendIfShort(rpc, payer, pool)
       \o (IF rpc.missing
           THEN <<create_associated_token_account_idempotent(
                      payer, payer, rpc.base_mint, rpc.base_token_program),
                  create_associated_token_account_idempotent(
                      payer, payer, rpc.quote_mint, rpc.quote_token_program)>>
           ELSE << >>)
       \o <<withdraw(payer, pool, rpc.base_mint, rpc.quote_mint,
                     rpc.base_token_program, rpc.quote_token_program,
                     [lp_token_amount_in |-> lp_token_amount_in,
                      min_base_amount_out |-> min_base_amount_out,
                      min_quote_amount_out |-> min_quote_amount_out])>>)

get_buy_instructions(rpc, payer, pool, base_out, max_quote_in, protocol_fee_recipient) ==
    IF ~rpc.ok THEN Err("SolanaClientError")
    ELSE
    LET recipient == IF protocol_fee_recipient.some THEN protocol_fee_recipient.v
                     ELSE rpc.protocol_fee_recipient
        user_quote_token_account ==
            get_associated_token_address_with_program_id(payer, rpc.quote_mint,
                                                         rpc.quote_token_program)
    IN  Ok(get_with_wsol_instructions(rpc, payer, rpc.quote_mint,
                                      user_quote_token_account, max_quote_in)
           \o ExtendIfShort(rpc, payer, pool)
           \o <<buy(payer, pool, rpc.base_mint, rpc.quote_mint,
                    rpc.base_token_program, rpc.quote_token_program, recipient,
                    [base_amount_out |-> base_out,
                     max_quote_amount_in |-> max_quote_in])>>)

get_sell_instructions(rpc, payer, pool, base_amount_in, min_quote_amount_out, protocol_fee_recipient) ==
    IF ~rpc.ok THEN Err("SolanaClientError")
    ELSE
    LET recipient == IF protocol_fee_recipient.some THEN protocol_fee_recipient.v
                     ELSE rpc.protocol_fee_recipient
        user_base_token_account ==
            get_associated_token_address_with_program_id(payer, rpc.base_mint,
                                                         rpc.base_token_program)
    IN  Ok(get_with_wsol_instructions(rpc, payer, rpc.base_mint,
                                      user_base_token_account, base_amount_in)
           \o ExtendIfShort(rpc, payer, pool)
           \o <<sell(payer, pool, rpc.base_mint, rpc.quote_mint,
                     rpc.base_token_program, rpc.quote_token_program, recipient,
                     rpc.coin_creator,
                     [base_amount_in |-> base_amount_in,
                      min_quote_amount_out |-> min_quote_amount_out])>>)

\* The quote swap computes from what it read: the pool balances, the global fee
\* rates and the pool's coin creator
SwapQuote(rpc, amount, slippage, swap_input, swap_direction, checks) ==
    LET is_default == rpc.coin_creator = Key(Rep(0, 32))
    IN  CASE swap_input = "Base" /\ swap_direction = "QuoteToBase" ->
                buy_base_input(amount, slippage, rpc.base_balance, rpc.quote_balance,
                               rpc.lp_fee_basis_points, rpc.protocol_fee_basis_points)
          [] swap_input = "Base" /\ swap_direction = "BaseToQuote" ->
                sell_base_input(amount, slippage, rpc.base_balance, rpc.quote_balance,
                                rpc.lp_fee_basis_points, rpc.protocol_fee_basis_points,
                                rpc.coin_creator_fee_basis_points, is_default, checks)
          [] swap_input = "Quote" /\ swap_direction = "QuoteToBase" ->
                buy_quote_input(amount, slippage, rpc.base_balance, rpc.quote_balance,
                                rpc.lp_fee_basis_points, rpc.protocol_fee_basis_points)
          [] swap_input = "Quote" /\ swap_direction = "BaseToQuote" ->
                sell_quote_input(amount, slippage, rpc.base_balance, rpc.quote_balance,
                                 rpc.lp_fee_basis_points, rpc.protocol_fee_basis_points,
                                 rpc.coin_creator_fee_basis_points, is_default, checks)

\* Mutant of SwapTrade: with a quote input the trade is built for the input
\* amount instead of the base amount of the quote
SwapTrade_amount_as_base(rpc, payer, pool, amount, swap_input, swap_direction, priority_fee, quote) ==
    IF quote.tag # "Ok" THEN quote
    ELSE
    LET base == amount
        swap_ixs == IF swap_direction = "QuoteToBase"
                    THEN get_buy_instructions(rpc, payer, pool, base, quote.val[3], None)
                    ELSE get_sell_instructions(rpc, payer, pool, base, quote.val[3], None)
    IN  IF swap_ixs.tag # "Ok" THEN swap_ixs
        ELSE Ok(priority_fee \o swap_ixs.val)

\* The second half of swap, after the match on (swap_input, swap_direction) has
\* given the quote: the error of the quote is returned, otherwise the trade is
\* built for (base, max_quote / min_quote) and sent after the priority fee
\* instructions
SwapTrade(rpc, payer, pool, amount, swap_input, swap_direction, priority_fee, quote) ==
    IF quote.tag # "Ok" THEN quote
    ELSE
    LET base == IF swap_input = "Base" THEN amount ELSE quote.val[2]
        swap_ixs == IF swap_direction = "QuoteToBase"
                    THEN get_buy_instructions(rpc, payer, pool, base, quote.val[3], None)
                    ELSE get_sell_instructions(rpc, payer, pool, base, quote.val[3], None)
    IN  IF swap_ixs.tag # "Ok" THEN swap_ixs
        ELSE Ok(priority_fee \o swap_ixs.val)

\* swap, with the instructions of the transaction it sends as the value of Ok
swap(rpc, payer, pool, amount, slippage, swap_input, swap_direction, priority_fee, checks) ==
    IF ~rpc.ok THEN Err("SolanaClientError")
    ELSE SwapTrade(rpc, payer, pool, amount, swap_input, swap_direction, priority_fee,
                   SwapQuote(rpc, amount, slippage, swap_input, swap_direction, checks))

----------------------------------------------------------------------------
(* The client as a state machine: one call of one operation on an RPC      *)
(* state drawn from the set below, then what the operation returns.        *)

\* The pools read: <<base mint, quote mint, base token program, quote token program>>
PoolMints ==
    {<<Key(Rep(4, 32)), NATIVE_MINT, TOKEN_PROGRAM, TOKEN_PROGRAM>>,
     <<Key(Rep(4, 32)), NATIVE_MINT, TOKEN_2022_PROGRAM, TOKEN_PROGRAM>>,
     <<NATIVE_MINT, Key(Rep(4, 32)), TOKEN_PROGRAM, TOKEN_PROGRAM>>,
     <<Key(Rep(4, 32)), Key(Rep(5, 32)), TOKEN_PROGRAM, TOKEN_2022_PROGRAM>>}

RpcStates ==
    {[ok |-> ok, base_mint |-> m[1], quote_mint |-> m[2],
      base_token_program |-> m[3], quote_token_program |-> m[4],
      short |-> short, missing |-> missing, create_ata |-> create_ata,
      coin_creator |-> Key(Rep(7, 32)),
      protocol_fee_recipient |-> Key(Rep(6, 32)),
      base_balance |-> FromInt(1000000), quote_balance |-> FromInt(3),
      lp_fee_basis_points |-> FromInt(30), protocol_fee_basis_points |-> FromInt(5),
      coin_creator_fee_basis_points |-> FromInt(5)] :
        ok \in BOOLEAN, m \in PoolMints, short \in BOOLEAN, missing \in BOOLEAN,
        create_ata \in BOOLEAN}

\* The pool balances swap reads: <<base, quote>>
PoolBalances == {<<FromInt(1000000), FromInt(3)>>, <<FromInt(1000), FromInt(1000000)>>}

Payer == Key(Rep(1, 32))

\* PumpFun::get_priority_fee_instructions: compute budget instructions, if any
PriorityFeeInstructions ==
    {<< >>, <<Instruction(Id("COMPUTE_BUDGET"), <<2>>, << >>),
              Instruction(Id("COMPUTE_BUDGET"), <<3>>, << >>)>>}

InitClient ==
    /\ pc = "idle"
    /\ call = [fn |-> "none"]
    /\ ret = Ok(<< >>)

GetDepositInstructions ==
    /\ pc = "idle"
    /\ \E rpc \in RpcStates, pool \in Pools, max_base \in ArgAmounts,
          max_quote \in ArgAmounts :
        /\ call' = [fn |-> "get_deposit_instructions", rpc |-> rpc, pool |-> pool,
                    base |-> max_base, quote |-> max_quote]
        /\ ret' = get_deposit_instructions(rpc, Payer, pool, FromInt(258), max_base,
                                           max_quote)
    /\ pc' = "done"

GetWithdrawInstructions ==
    /\ pc = "idle"
    /\ \E rpc \in RpcStates, pool \in Pools, min_base_amount_out \in ArgAmounts,
          min_quote_amount_out \in ArgAmounts :
        /\ call' = [fn |-> "get_withdraw_instructions", rpc |-> rpc, pool |-> pool,
                    base |-> min_base_amount_out, quote |-> min_quote_amount_out]
        /\ ret' = get_withdraw_instructions(rpc, Payer, pool, FromInt(258),
                                            min_base_amount_out, min_quote_amount_out)
    /\ pc' = "done"

GetBuyInstructions ==
    /\ pc = "idle"
    /\ \E rpc \in RpcStates, pool \in Pools, base_out \in ArgAmounts,
          max_quote_in \in ArgAmounts,
          protocol_fee_recipient \in {None, Some(Key(Rep(8, 32)))} :
        /\ call' = [fn |-> "get_buy_instructions", rpc |-> rpc, pool |-> pool,
                    base |-> base_out, quote |-> max_quote_in,
                    protocol_fee_recipient |-> protocol_fee_recipient]
        /\ ret' = get_buy_instructions(rpc, Payer, pool, base_out, max_quote_in,
                                       protocol_fee_recipient)
    /\ pc' = "done"

GetSellInstructions ==
    /\ pc = "idle"
    /\ \E rpc \in RpcStates, pool \in Pools, base_amount_in \in ArgAmounts,
          min_quote_amount_out \in ArgAmounts,
          protocol_fee_recipient \in {None, Some(Key(Rep(8, 32)))} :
        /\ call' = [fn |-> "get_sell_instructions", rpc |-> rpc, pool |-> pool,
                    base |-> base_amount_in, quote |-> min_quote_amount_out,
                    protocol_fee_recipient |-> protocol_fee_recipient]
        /\ ret' = get_sell_instructions(rpc, Payer, pool, base_amount_in,
                                        min_quote_amount_out, protocol_fee_recipient)
    /\ pc' = "done"

Swap ==
    /\ pc = "idle"
    /\ \E read \in {r \in RpcStates : ~r.missing /\ ~r.create_ata},
          balances \in PoolBalances, coin_creator \in CoinCreators, pool \in Pools,
          amount \in {<< >>, FromInt(2), FromInt(1000)}, slippage \in {0, 1, 101},
          swap_input \in {"Base", "Quote"},
          swap_direction \in {"QuoteToBase", "BaseToQuote"},
          priority_fee \in PriorityFeeInstructions, checks \in BOOLEAN :
        LET rpc == [read EXCEPT !.base_balance = balances[1],
                                !.quote_balance = balances[2],
                                !.coin_creator = coin_creator]
        IN  /\ call' = [fn |-> "swap", rpc |-> rpc, pool |-> pool, amount |-> amount,
                        slippage |-> slippage, swap_input |-> swap_input,
                        swap_direction |-> swap_direction,
                        priority_fee |-> priority_fee, checks |-> checks]
            /\ ret' = swap(rpc, Payer, pool, amount, slippage, swap_input,
                           swap_direction, priority_fee, checks)
    /\ pc' = "done"

NextClient ==
    \/ GetDepositInstructions
    \/ GetWithdrawInstructions
    \/ GetBuyInstructions
    \/ GetSellInstructions
    \/ Swap

SpecClient == InitClient /\ [][NextClient]_vars

----------------------------------------------------------------------------
(* src/crates/pumpfun/src/streams/mod.rs: the Subscriber.                  *)
(*                                                                         *)
(* ret is the Subscriber: its subsciptions list, its connection ("None"    *)
(* before connect, "Some" with a live socket, "Closed" once the socket has *)
(* been closed or has failed), the last message written to the socket and  *)
(* the messages the socket will deliver. call is the operation that ran    *)
(* last; pc is "panicked" once an unwrap or expect has failed.             *)

\* The struct Subscription { method, params }
Payload(method, params) == [method |-> method, params |-> params]

\* Vec::retain(|sub| sub.method != method)
RECURSIVE Retain(_, _)
Retain(subs, method) ==
    IF subs = << >> THEN << >>
    ELSE (IF subs[1].method # method THEN <<subs[1]>> ELSE << >>)
         \o Retain(Tail(subs), method)

\* A subscribe_* operation: the payload is written to the socket if there is a
\* connection (unwrap panics if the write fails), then pushed onto the list
SendThenPush(fn, payload) ==
    /\ pc = "idle"
    /\ call' = [fn |-> fn, params |-> payload.params]
    /\ IF ret.connection = "Closed"
       THEN pc' = "panicked" /\ ret' = ret
       ELSE /\ pc' = pc
            /\ ret' = [ret EXCEPT !.sent = IF ret.connection = "Some" THEN payload
                                           ELSE @,
                                  !.subsciptions = Append(@, payload)]

\* An unsubscribe_* operation: the payload is written to the socket if there is a
\* connection, then the list retains the entries whose method differs from the
\* payload's method
SendThenRetain(fn, payload) ==
    /\ pc = "idle"
    /\ call' = [fn |-> fn, params |-> payload.params]
    /\ IF ret.connection = "Closed"
       THEN pc' = "panicked" /\ ret' = ret
       ELSE /\ pc' = pc
            /\ ret' = [ret EXCEPT !.sent = IF ret.connection = "Some" THEN payload
                                           ELSE @,
                                  !.subsciptions = Retain(@, payload.method)]

\* The list holds at most this many entries
MaxSubscriptions == 3

Tokens == {"mintA", "mintB"}

InitSubscriber ==
    /\ pc = "idle"
    /\ call = [fn |-> "none", params |-> << >>]
    /\ ret = [subsciptions |-> << >>, connection |-> "None",
              sent |-> Payload("", << >>), inbox |-> << >>]

\* connect: expect panics if the connection cannot be made
Connect ==
    /\ pc = "idle"
    /\ call' = [fn |-> "connect", params |-> << >>]
    /\ \/ pc' = "panicked" /\ ret' = ret
       \/ /\ pc' = pc
          /\ \E inbox \in {<<"Text">>, <<"Text", "Close", "Text">>, <<"Err">>} :
                ret' = [ret EXCEPT !.connection = "Some", !.inbox = inbox]

SubscribeTrades ==
    /\ Len(ret.subsciptions) < MaxSubscriptions
    /\ SendThenPush("subscribe_trades", Payload("subscribeTrades", << >>))

UnsubscribeTrades ==
    /\ pc = "idle"
    /\ SendThenRetain("unsubscribe_trades", Payload("unsubscribeTrades", << >>))

SubscribeNewPools ==
    /\ Len(ret.subsciptions) < MaxSubscriptions
    /\ SendThenPush("subscribe_new_pools", Payload("subscribeNewPools", << >>))

UnsubscribeNewPools ==
    /\ pc = "idle"
    /\ SendThenRetain("unsubscribe_new_pools", Payload("unsubscribeNewPools", << >>))

SubscribeToken ==
    /\ Len(ret.subsciptions) < MaxSubscriptions
    /\ \E token \in Tokens :
        SendThenPush("subscribe_token", Payload("subscribeToken", <<token>>))

UnsubscribeToken ==
    /\ pc = "idle"
    /\ \E token \in Tokens :
        SendThenRetain("unsubscribe_token", Payload("unsubscribeToken", <<token>>))

\* The messages left after listen has read up to the first Close or Err
RECURSIVE AfterListen(_)
AfterListen(inbox) ==
    IF inbox = << >> THEN << >>
    ELSE IF inbox[1] = "Text" THEN AfterListen(Tail(inbox))
    ELSE Tail(inbox)

\* listen: prints the messages until the socket is closed or fails
Listen ==
    /\ pc = "idle"
    /\ ret.connection = "Some"
    /\ call' = [fn |-> "listen", params |-> << >>]
    /\ pc' = pc
    /\ ret' = [ret EXCEPT !.inbox = AfterListen(@),
                          !.connection = IF \E i \in 1 .. Len(ret.inbox) :
                                                ret.inbox[i] # "Text"
                                         THEN "Closed" ELSE @]

NextSubscriber ==
    \/ Connect
    \/ SubscribeTrades
    \/ UnsubscribeTrades
    \/ SubscribeNewPools
    \/ UnsubscribeNewPools
    \/ SubscribeToken
    \/ UnsubscribeToken
    \/ Listen

SpecSubscriber == InitSubscriber /\ [][NextSubscriber]_vars

----------------------------------------------------------------------------
(* src/src/common/stream.rs: subscribe and the Subscription.               *)
(*                                                                         *)
(* A log line is the sequence of its characters, each a base64 symbol,     *)
(* B64Space or B64Other. pc is the caller: "idle" before subscribe,        *)
(* "subscribed" or "failed" after it, "dropped" after the Subscription is  *)
(* dropped. ret holds the result of subscribe, the spawned task (spawned,  *)
(* waiting at stream.next().await, running between two awaits, panicked,   *)
(* cancelled), the logs the stream holds, the logs the loop has taken, the *)
(* next line of the log in hand, the calls of the callback so far and what *)
(* drop has done. A log carries after_drop: it reached the stream after    *)
(* the drop.                                                               *)

\* The characters of "Program data:" and of "Program log: "
ProgramDataPrefix == <<15, 43, 40, 32, 43, 26, 38, B64Space, 29, 26, 45, 26, B64Other>>
ProgramLogPrefix == <<15, 43, 40, 32, 43, 26, 38, B64Space, 37, 40, 32, B64Other, B64Space>>

\* str::starts_with
StartsWith(text, pattern) ==
    Len(text) >= Len(pattern) /\ SubSeq(text, 1, Len(pattern)) = pattern

\* str::replace(pattern, "") for a nonempty pattern: every match, from the left,
\* without overlap
RECURSIVE Replace(_, _)
Replace(text, pattern) ==
    LET n == Len(pattern)
        matches == {i \in 1 .. Len(text) - n + 1 : SubSeq(text, i, i + n - 1) = pattern}
    IN  IF matches = {} THEN text
        ELSE LET first == CHOOSE i \in matches : \A j \in matches : i <= j
             IN  SubSeq(text, 1, first - 1)
                 \o Replace(SubSeq(text, first + n, Len(text)), pattern)

\* str::trim
RECURSIVE Trim(_)
Trim(text) ==
    IF text = << >> THEN << >>
    ELSE IF text[1] = B64Space THEN Trim(Tail(text))
    ELSE IF text[Len(text)] = B64Space THEN Trim(SubSeq(text, 1, Len(text) - 1))
    ELSE text

\* log_line.replace("Program data: ", "").trim()
ProgramData(log_line) == Trim(Replace(log_line, ProgramDataPrefix \o <<B64Space>>))

\* Mutant of OnLogLine: the callback is left out when parse_event fails
OnLogLine_errors_dropped(log, k, j) ==
    IF ~StartsWith(log.logs[j], ProgramDataPrefix) THEN << >>
    ELSE LET parsed == parse_event(log.signature, ProgramData(log.logs[j]))
         IN  IF parsed.tag = "Ok"
             THEN <<[signature |-> log.signature, event |-> TRUE, error |-> FALSE,
                     parsed |-> parsed, response |-> log, at |-> <<k, j>>]>>
             ELSE << >>

\* The body of the loop over the lines for line j of log, the k-th log taken: the
\* calls of the callback it makes. A call holds the signature, whether event and
\* error are Some, what parse_event returned, and the log as the response.
OnLogLine(log, k, j) ==
    IF ~StartsWith(log.logs[j], ProgramDataPrefix) THEN << >>
    ELSE LET parsed == parse_event(log.signature, ProgramData(log.logs[j]))
         IN  IF parsed.tag = "Ok"
             THEN <<[signature |-> log.signature, event |-> TRUE, error |-> FALSE,
                     parsed |-> parsed, response |-> log, at |-> <<k, j>>]>>
             ELSE <<[signature |-> log.signature, event |-> FALSE, error |-> TRUE,
                     parsed |-> parsed, response |-> log, at |-> <<k, j>>]>>

\* The stream delivers at most this many logs
MaxLogs == 2

\* A Complete event, and eight bytes that are no event's discriminator
LogPayloads ==
    [complete |-> B64Encode(EventDiscriminator("Complete") \o CompleteBody),
     unknown  |-> B64Encode(Rep(0, 8))]

\* Lines with and without the prefix, with a payload that parses and one that
\* does not, and the prefix without the space after it
LogLines ==
    [event   |-> ProgramDataPrefix \o <<B64Space>> \o LogPayloads.complete,
     error   |-> ProgramDataPrefix \o <<B64Space>> \o LogPayloads.unknown \o <<B64Space>>,
     other   |-> ProgramLogPrefix \o LogPayloads.complete,
     nospace |-> ProgramDataPrefix \o LogPayloads.complete]

Logs ==
    {[signature |-> "5VERv8", logs |-> <<LogLines.other, LogLines.error, LogLines.event>>],
     [signature |-> "3Bxs4h", logs |-> <<LogLines.nospace, LogLines.event>>],
     [signature |-> "3Bxs4h", logs |-> << >>]}

InitStream ==
    /\ pc = "idle"
    /\ call = [fn |-> "none"]
    /\ ret = [result |-> "none", task |-> "none", aborted |-> FALSE, stream |-> << >>,
              taken |-> << >>, line |-> 1, calls |-> << >>, dropped |-> << >>]

\* subscribe: PubsubClient::new fails and the error is returned, or the task is
\* spawned and Ok(Subscription) is returned
Subscribe ==
    /\ pc = "idle"
    /\ call' = [fn |-> "subscribe"]
    /\ \/ pc' = "failed" /\ ret' = [ret EXCEPT !.result = "Err"]
       \/ pc' = "subscribed" /\ ret' = [ret EXCEPT !.result = "Ok", !.task = "spawned"]

\* The task's first poll: logs_subscribe(..).await.unwrap() panics if the request
\* fails, otherwise the loop waits for the first log
TaskLogsSubscribe ==
    /\ ret.task = "spawned"
    /\ call' = [fn |-> "logs_subscribe"]
    /\ pc' = pc
    /\ \E next \in {"panicked", "waiting"} : ret' = [ret EXCEPT !.task = next]

\* The cluster sends a log while the subscription is established
Deliver ==
    /\ ret.task \in {"waiting", "running"}
    /\ Len(ret.taken) + Len(ret.stream) < MaxLogs
    /\ call' = [fn |-> "deliver"]
    /\ pc' = pc
    /\ \E log \in Logs :
        ret' = [ret EXCEPT !.stream =
                    Append(@, [signature |-> log.signature, logs |-> log.logs,
                               after_drop |-> pc = "dropped"])]

\* stream.next().await of a waiting task resolves
TaskTake ==
    /\ ret.task = "waiting" /\ ret.stream # << >>
    /\ call' = [fn |-> "next"]
    /\ pc' = pc
    /\ ret' = [ret EXCEPT !.task = "running", !.taken = Append(@, Head(ret.stream)),
                          !.stream = Tail(@), !.line = 1]

\* One pass of the loop over the lines of the log in hand
TaskLine ==
    /\ ret.task = "running" /\ ret.line <= Len(ret.taken[Len(ret.taken)].logs)
    /\ call' = [fn |-> "line"]
    /\ pc' = pc
    /\ ret' = [ret EXCEPT !.calls = @ \o OnLogLine(ret.taken[Len(ret.taken)],
                                                   Len(ret.taken), ret.line),
                          !.line = @ + 1]

\* The running task is back at stream.next().await: with a log ready it goes on
\* without yielding, or it yields; an aborted task is shut down when it yields
TaskLoop ==
    /\ ret.task = "running" /\ ret.line > Len(ret.taken[Len(ret.taken)].logs)
    /\ call' = [fn |-> "loop"]
    /\ pc' = pc
    /\ \/ /\ ret.stream # << >>
          /\ ret' = [ret EXCEPT !.taken = Append(@, Head(ret.stream)),
                                !.stream = Tail(@), !.line = 1]
       \/ ret' = [ret EXCEPT !.task = IF ret.aborted THEN "cancelled" ELSE "waiting"]

\* Drop for Subscription: the unsubscribe hook (a try_send on a channel whose
\* receiver subscribe has dropped), then task.abort(): a task that is not running
\* is shut down at once, a running task when it next yields
Drop ==
    /\ pc = "subscribed"
    /\ call' = [fn |-> "drop"]
    /\ pc' = "dropped"
    /\ ret' = [ret EXCEPT !.dropped = <<"unsubscribe", "abort">>,
                          !.aborted = TRUE,
                          !.task = IF @ \in {"spawned", "waiting"} THEN "cancelled"
                                   ELSE @]

NextStream ==
    \/ Subscribe
    \/ TaskLogsSubscribe
    \/ Deliver
    \/ TaskTake
    \/ TaskLine
    \/ TaskLoop
    \/ Drop

SpecStream == InitStream /\ [][NextStream]_vars

----------------------------------------------------------------------------
(* The amounts the specification states, in unbounded arithmetic *)

Done(f) == pc = "done" /\ call.fn = f

QuotingFunctions ==
    {"buy_base_input", "buy_quote_input", "sell_base_input", "sell_quote_input",
     "deposit_lp_token", "withdraw_lp_token"}

\* ceil(amount * bps / 10000)
ExactFee(amount, bps) == DivCeil(Mul(amount, bps), FromInt(10000))

\* floor(v * (100 + s) / 100)
PercentUp(v, s) == Div(Mul(v, FromInt(100 + s)), FromInt(100))

\* m = floor(v * (100 - s) / 100); for s > 100 the right-hand side is negative
\* unless v = 0
IsPercentDown(m, v, s) ==
    IF s <= 100 THEN m = Div(Mul(v, FromInt(100 - s)), FromInt(100))
    ELSE v = << >> /\ m = << >>

StatedBuyBase(c) ==
    LET raw   == DivCeil(Mul(c.quote_reserve, c.base), Sub(c.base_reserve, c.base))
        total == Add(Add(raw, ExactFee(raw, c.lp_fee_bps)),
                     ExactFee(raw, c.protocol_fee_bps))
    IN  <<raw, total, PercentUp(total, c.slippage)>>

StatedBuyQuote(c) ==
    LET effective_quote ==
            Div(Mul(c.quote, FromInt(10000)),
                Add(FromInt(10000), Add(c.lp_fee_bps, c.protocol_fee_bps)))
        base == Div(Mul(c.base_reserve, effective_quote),
                    Add(c.quote_reserve, effective_quote))
    IN  <<effective_quote, base, PercentUp(c.quote, c.slippage)>>

StatedSellBaseRaw(c) ==
    Div(Mul(c.quote_reserve, c.base), Add(c.base_reserve, c.base))

StatedSellBaseFees(c) ==
    LET raw == StatedSellBaseRaw(c)
    IN  Add(Add(ExactFee(raw, c.lp_fee_bps), ExactFee(raw, c.protocol_fee_bps)),
            IF c.coin_creator_is_default THEN << >>
            ELSE ExactFee(raw, c.coin_creator_fee_bps))

\* ret.val = <<final_quote, raw, min_quote>> as stated for sell_base_input
IsStatedSellBase(val, c) ==
    LET raw  == StatedSellBaseRaw(c)
        fees == StatedSellBaseFees(c)
    IN  /\ val[2] = raw
        /\ Leq(fees, raw)
        /\ val[1] = Sub(raw, fees)
        /\ IsPercentDown(val[3], val[1], c.slippage)

\* lp_fee_bps + protocol_fee_bps + the creator fee, if there is a creator
SellTotalFeeBps(c) ==
    Add(Add(c.lp_fee_bps, c.protocol_fee_bps),
        IF c.coin_creator_is_default THEN << >> ELSE c.coin_creator_fee_bps)

\* ret.val = <<base, quote, min_base, min_quote>> as stated for withdraw_lp_token
IsStatedWithdraw(val, c) ==
    /\ val[1] = Div(Mul(c.base_reserve, c.lp_token), c.total_lp_tokens)
    /\ val[2] = Div(Mul(c.quote_reserve, c.lp_token), c.total_lp_tokens)
    /\ IsPercentDown(val[3], val[1], c.slippage)
    /\ IsPercentDown(val[4], val[2], c.slippage)

\* The proportional-share ceilings of a deposit, scaled by factor / 1e9
DepositAmounts(c, factor) ==
    LET base_in  == DivCeil(Mul(c.base_reserve, c.lp_token), c.total_lp_tokens)
        quote_in == DivCeil(Mul(c.quote_reserve, c.lp_token), c.total_lp_tokens)
    IN  <<Div(Mul(base_in, factor), FromInt(PRECISION)),
          Div(Mul(quote_in, factor), FromInt(PRECISION))>>

----------------------------------------------------------------------------
(* Claims *)

\* C1: for slippage in 0..100 and total_lp_tokens > 0, deposit_lp_token returns
\* max_base = floor(ceil(base_reserve * lp_token / total_lp_tokens) * (100 + slippage) / 100)
\* and max_quote likewise from quote_reserve.
C1_DepositLpTokenAmounts ==
    (Done("deposit_lp_token") /\ call.slippage <= 100 /\ call.total_lp_tokens # << >>
        /\ ret.tag = "Ok")
    => ret.val = DepositAmounts(call, Mul(FromInt(100 + call.slippage), FromInt(10000000)))

\* C2: every quoting function called with slippage > 100 returns an error value: it
\* neither returns Ok nor panics.
C2_SlippageAbove100IsError ==
    (pc = "done" /\ call.fn \in QuotingFunctions /\ call.slippage > 100)
    => ret.tag = "Err"

\* C3: whenever a quoting function returns Ok, every returned component is the exact
\* unbounded-integer value of its formula, never that value reduced modulo 2^64.
\* (deposit_lp_token is taken with the slippage factor the code applies and the sell
\* functions with slippage <= 100, so that the property is about width alone.)
C3_NoSilentTruncation ==
    (pc = "done" /\ ret.tag = "Ok") =>
        /\ call.fn = "buy_base_input" => ret.val = StatedBuyBase(call)
        /\ call.fn = "buy_quote_input" => ret.val = StatedBuyQuote(call)
        /\ (call.fn = "sell_base_input" /\ call.slippage <= 100)
            => IsStatedSellBase(ret.val, call)
        /\ call.fn = "deposit_lp_token"
            => ret.val = DepositAmounts(call, DepositSlippageFactor(call.slippage))
        /\ call.fn = "withdraw_lp_token" => IsStatedWithdraw(ret.val, call)

\* C4: sell_quote_input returns an error value and never panics when the total fee
\* rate (creator fee counted only for a non-default creator) equals 10000, for every
\* quote and nonzero reserves.
C4_SellQuoteInputFullFeeIsError ==
    (Done("sell_quote_input") /\ call.base_reserve # << >> /\ call.quote_reserve # << >>
        /\ SellTotalFeeBps(call) = FromInt(10000))
    => ret.tag = "Err"

\* C5: for every 64-bit amount and every fee_bps in 0..10000, fee succeeds and returns
\* ceil(amount * fee_bps / 10000).
C5_FeeSucceedsUpTo10000Bps ==
    (Done("fee") /\ Leq(call.fee_bps, FromInt(10000)))
    => ret = Ok(<<ExactFee(call.amount, call.fee_bps)>>)

\* C6: whenever fee succeeds it is monotonic non-decreasing in each argument, and
\* fee(amount, bps) <= amount for bps <= 10000.
C6_FeeMonotonic ==
    (Done("fee") /\ ret.tag = "Ok") =>
        /\ \A a2 \in FeeAmounts :
            (Leq(call.amount, a2) /\ fee(a2, call.fee_bps).tag = "Ok")
            => Leq(ret.val[1], fee(a2, call.fee_bps).val)
        /\ \A b2 \in FeeBps :
            (Leq(call.fee_bps, b2) /\ fee(call.amount, b2).tag = "Ok")
            => Leq(ret.val[1], fee(call.amount, b2).val)
        /\ Leq(call.fee_bps, FromInt(10000)) => Leq(ret.val[1], call.amount)

\* A successful fee that a larger amount and a larger rate each strictly raise.
C6_Witness ==
    /\ Done("fee") /\ ret.tag = "Ok" /\ ret.val[1] # << >>
    /\ \E a2 \in FeeAmounts :
        /\ Less(call.amount, a2)
        /\ fee(a2, call.fee_bps).tag = "Ok"
        /\ Less(ret.val[1], fee(a2, call.fee_bps).val)
    /\ \E b2 \in FeeBps :
        /\ Less(call.fee_bps, b2)
        /\ fee(call.amount, b2).tag = "Ok"
        /\ Less(ret.val[1], fee(call.amount, b2).val)

\* C7: buy_base_input returns raw = ceil(quote_reserve * base / (base_reserve - base)),
\* total = raw + fee(raw, lp_fee_bps) + fee(raw, protocol_fee_bps) and
\* max_quote = floor(total * (100 + slippage) / 100); for base = 1000, slippage = 1,
\* reserves 1_000_000 each, lp_fee_bps = 30, protocol_fee_bps = 5 it returns
\* (1002, 1007, 1017).
C7_BuyBaseInputFormula ==
    /\ (Done("buy_base_input") /\ ret.tag = "Ok") => ret.val = StatedBuyBase(call)
    /\ (Done("buy_base_input") /\ call.base = FromInt(1000) /\ call.slippage = 1
            /\ call.base_reserve = FromInt(1000000)
            /\ call.quote_reserve = FromInt(1000000)
            /\ call.lp_fee_bps = FromInt(30) /\ call.protocol_fee_bps = FromInt(5))
        => ret = Ok(<<FromInt(1002), FromInt(1007), FromInt(1017)>>)

\* C8: buy_base_input returns an error, and no quote, whenever base = 0,
\* base_reserve = 0, quote_reserve = 0 or base >= base_reserve.
C8_BuyBaseInputRejects ==
    (Done("buy_base_input")
        /\ (\/ call.base = << >>
            \/ call.base_reserve = << >>
            \/ call.quote_reserve = << >>
            \/ Leq(call.base_reserve, call.base)))
    => ret.tag = "Err"

\* A buy of exactly the whole base reserve, rejected at the zero denominator.
C8_Witness ==
    /\ Done("buy_base_input")
    /\ call.base # << >> /\ call.quote_reserve # << >>
    /\ call.base = call.base_reserve
    /\ ret = Err("Pool would be depleted; denominator is zero")

\* C9: buy_quote_input returns
\* effective_quote = floor(quote * 10000 / (10000 + lp_fee_bps + protocol_fee_bps)),
\* base = floor(base_reserve * effective_quote / (quote_reserve + effective_quote)) and
\* max_quote = floor(quote * (100 + slippage) / 100), on the original quote.
C9_BuyQuoteInputFormula ==
    (Done("buy_quote_input") /\ ret.tag = "Ok") => ret.val = StatedBuyQuote(call)

\* C10: sell_base_input computes raw = floor(quote_reserve * base / (base_reserve + base)),
\* final_quote = raw - fee(raw, lp_fee_bps) - fee(raw, protocol_fee_bps) - creator_fee,
\* with creator_fee = 0 for the default creator whatever coin_creator_fee_bps is, and
\* min_quote = floor(final_quote * (100 - slippage) / 100).
C10_SellBaseInputFormula ==
    (Done("sell_base_input") /\ ret.tag = "Ok") => IsStatedSellBase(ret.val, call)

\* C11: sell_base_input returns the subtraction-underflow error, and no amount,
\* whenever the LP, protocol and creator fees on the raw quote-out, each rounded up
\* separately, sum to more than the raw quote-out (small sells with a raw quote-out
\* of 1 or 2 units included).
C11_SellBaseInputFeeUnderflow ==
    (Done("sell_base_input") /\ call.base_reserve # << >> /\ call.quote_reserve # << >>
        /\ Less(StatedSellBaseRaw(call), StatedSellBaseFees(call)))
    => ret = Err("Fee subtraction underflow")

\* ceil(quote * 10000 / (10000 - total_fee_bps)), for total_fee_bps < 10000
StatedSellQuoteRaw(c) ==
    DivCeil(Mul(c.quote, FromInt(10000)), Sub(FromInt(10000), SellTotalFeeBps(c)))

\* r is what is stated for sell_quote_input called with c
IsStatedSellQuote(r, c) ==
    LET raw == StatedSellQuoteRaw(c)
    IN  IF Less(c.quote_reserve, c.quote) \/ Leq(c.quote_reserve, raw)
        THEN r.tag = "Err"
        ELSE /\ r.tag = "Ok"
             /\ r.val[1] = raw
             /\ r.val[2] = DivCeil(Mul(c.base_reserve, raw), Sub(c.quote_reserve, raw))
             /\ IsPercentDown(r.val[3], c.quote, c.slippage)

\* C12: sell_quote_input computes raw_quote = ceil(quote * 10000 / (10000 - total_fee_bps)),
\* the creator fee counted only for a non-default creator; it returns an error if
\* quote > quote_reserve or raw_quote >= quote_reserve, and otherwise returns
\* base_in = ceil(base_reserve * raw_quote / (quote_reserve - raw_quote)) and
\* min_quote = floor(quote * (100 - slippage) / 100).  (Nonzero reserves and a total
\* fee rate below 10000, where the formulas are defined.)
C12_SellQuoteInputFormula ==
    (Done("sell_quote_input") /\ call.base_reserve # << >> /\ call.quote_reserve # << >>
        /\ Less(SellTotalFeeBps(call), FromInt(10000)))
    => IsStatedSellQuote(ret, call)

\* bound is a slippage bound on amount: on the side given, and equal at slippage 0
IsSlippageBound(bound, amount, slippage, upper) ==
    /\ IF upper THEN Leq(amount, bound) ELSE Leq(bound, amount)
    /\ slippage = 0 => bound = amount

\* C13: for every successful swap quote with slippage in 0..100, max_quote of a buy is
\* >= the amount it is computed from (total_quote in buy_base_input, quote in
\* buy_quote_input), min_quote of a sell is <= the amount it is computed from
\* (final_quote in sell_base_input, quote in sell_quote_input), and each bound equals
\* that amount when slippage = 0.
C13_SlippageBounds ==
    (pc = "done" /\ ret.tag = "Ok" /\ call.fn # "fee" /\ call.slippage <= 100) =>
        /\ call.fn = "buy_base_input"
            => IsSlippageBound(ret.val[3], ret.val[2], call.slippage, TRUE)
        /\ call.fn = "buy_quote_input"
            => IsSlippageBound(ret.val[3], call.quote, call.slippage, TRUE)
        /\ call.fn = "sell_base_input"
            => IsSlippageBound(ret.val[3], ret.val[1], call.slippage, FALSE)
        /\ call.fn = "sell_quote_input"
            => IsSlippageBound(ret.val[3], call.quote, call.slippage, FALSE)

\* C14: withdraw_lp_token returns base = floor(base_reserve * lp_token / total_lp_tokens),
\* quote = floor(quote_reserve * lp_token / total_lp_tokens),
\* min_base = floor(base * (100 - slippage) / 100) and
\* min_quote = floor(quote * (100 - slippage) / 100); for lp_token = 100_000,
\* slippage = 0, reserves 10_000_000 each and total_lp_tokens = 1_000_000 it returns
\* (1_000_000, 1_000_000, 1_000_000, 1_000_000).
C14_WithdrawLpTokenFormula ==
    /\ (Done("withdraw_lp_token") /\ ret.tag = "Ok") => IsStatedWithdraw(ret.val, call)
    /\ (Done("withdraw_lp_token") /\ call.lp_token = FromInt(100000) /\ call.slippage = 0
            /\ call.base_reserve = FromInt(10000000)
            /\ call.quote_reserve = FromInt(10000000)
            /\ call.total_lp_tokens = FromInt(1000000))
        => ret = Ok(<<FromInt(1000000), FromInt(1000000), FromInt(1000000),
                      FromInt(1000000)>>)

\* C15: withdraw_lp_token returns an error if and only if lp_token = 0,
\* total_lp_tokens = 0 or slippage > 100 (and Ok otherwise); deposit_lp_token returns
\* an error if total_lp_tokens = 0 or slippage > 100; in neither function does a zero
\* LP supply reach a division: the call ends with the error of the opening check.
C15_LiquidityErrors ==
    /\ Done("withdraw_lp_token") =>
        IF call.lp_token = << >> \/ call.total_lp_tokens = << >> \/ call.slippage > 100
        THEN ret.tag = "Err"
        ELSE ret.tag = "Ok"
    /\ (Done("deposit_lp_token")
            /\ (call.total_lp_tokens = << >> \/ call.slippage > 100))
        => ret.tag = "Err"
    /\ (Done("withdraw_lp_token") /\ call.total_lp_tokens = << >>)
        => ret = Err("LP token or total LP tokens cannot be zero")
    /\ (Done("deposit_lp_token") /\ call.total_lp_tokens = << >>)
        => ret = Err("Total LP tokens cannot be zero")

\* A deposit into a pool with no LP supply, with everything else valid, is refused.
C15_Witness ==
    /\ Done("deposit_lp_token")
    /\ call.total_lp_tokens = << >> /\ call.slippage <= 100
    /\ call.lp_token # << >> /\ call.base_reserve # << >> /\ call.quote_reserve # << >>
    /\ ret = Err("Total LP tokens cannot be zero")

\* |a - b| <= 1
WithinOne(a, b) == Leq(a, Add(b, <<1>>)) /\ Leq(b, Add(a, <<1>>))

\* buy_quote_input has succeeded on nonzero reserves with a base amount in
\* 1 .. base_reserve - 1
BuyQuoteGaveBase ==
    /\ Done("buy_quote_input") /\ ret.tag = "Ok"
    /\ call.base_reserve # << >> /\ call.quote_reserve # << >>
    /\ ret.val[2] # << >> /\ Less(ret.val[2], call.base_reserve)

\* buy_base_input for the base amount that buy_quote_input returned, on the same
\* reserves and fees
BuyBack ==
    buy_base_input(ret.val[2], call.slippage, call.base_reserve, call.quote_reserve,
                   call.lp_fee_bps, call.protocol_fee_bps)

DepositedAtZeroSlippage ==
    /\ Done("deposit_lp_token") /\ ret.tag = "Ok" /\ call.slippage = 0
    /\ call.lp_token # << >> /\ call.total_lp_tokens # << >>
    /\ call.base_reserve # << >> /\ call.quote_reserve # << >>
    /\ FitsU64(Add(call.base_reserve, ret.val[1]))
    /\ FitsU64(Add(call.quote_reserve, ret.val[2]))
    /\ FitsU64(Add(call.total_lp_tokens, call.lp_token))

\* withdraw_lp_token of the same lp_token from the pool after the deposit
WithdrawBack ==
    withdraw_lp_token(call.lp_token, 0, Add(call.base_reserve, ret.val[1]),
                      Add(call.quote_reserve, ret.val[2]),
                      Add(call.total_lp_tokens, call.lp_token), TRUE)

\* C17: with slippage 0, if deposit_lp_token(lp, 0, Rb, Rq, S) returns (db, dq), then
\* withdraw_lp_token(lp, 0, Rb + db, Rq + dq, S + lp) returns base and quote amounts
\* that differ from db and dq respectively by at most one unit, for Rb, Rq, S, lp > 0.
C17_LiquidityRoundTrip ==
    DepositedAtZeroSlippage =>
        /\ WithdrawBack.tag = "Ok"
        /\ WithinOne(WithdrawBack.val[1], ret.val[1])
        /\ WithinOne(WithdrawBack.val[2], ret.val[2])

\* The event variants whose discriminator is the given 8-byte prefix
VariantsOf(prefix) ==
    {k \in {"Create", "Trade", "Complete", "SetParams"} : EventDiscriminator(k) = prefix}

\* C18: parse_event is a total, exclusive classification.  Every (signature, data)
\* yields exactly one of: the base64 error; the "too short" error when fewer than 8
\* bytes are decoded; Create, Trade, Complete or SetParams; the record-decode error
\* naming the matched event type; or the "unknown event" error carrying signature and
\* data.  The four discriminators are pairwise distinct, so the first 8 decoded bytes
\* select at most one variant and alone determine which one is returned or named.
C18_ParseEventClassification ==
    /\ \A k1, k2 \in {"Create", "Trade", "Complete", "SetParams"} :
        k1 # k2 => EventDiscriminator(k1) # EventDiscriminator(k2)
    /\ Done("parse_event") =>
        LET decoded == B64Decode(call.data)
            named   == [Create |-> "CreateEvent", Trade |-> "TradeEvent",
                        Complete |-> "CompleteEvent", SetParams |-> "SetParamsEvent"]
        IN  IF decoded.tag # "Ok"
            THEN ret.tag = "Err" /\ Len(ret.msg) = 1 /\ ret.msg[1] = decoded.msg
            ELSE IF Len(decoded.val) < 8
            THEN /\ ret.tag = "Err" /\ Len(ret.msg) = 2
                 /\ ret.msg[1] = "Data too short to contain discriminator"
                 /\ ret.msg[2] = call.data
            ELSE
            LET variants == VariantsOf(SubSeq(decoded.val, 1, 8))
            IN  /\ Cardinality(variants) <= 1
                /\ variants = {} =>
                    /\ ret.tag = "Err" /\ Len(ret.msg) = 3
                    /\ ret.msg[1] = "Unknown event"
                    /\ ret.msg[2] = call.signature /\ ret.msg[3] = call.data
                /\ \A k \in variants :
                    \/ ret.tag = "Ok" /\ ret.kind = k
                    \/ /\ ret.tag = "Err" /\ Len(ret.msg) = 2
                       /\ ret.msg[1] = "Failed to decode" /\ ret.msg[2] = named[k]

\* A well-formed Trade record behind the Trade discriminator decodes to Trade, with
\* is_buy read as true.
C18_Witness ==
    /\ Done("parse_event")
    /\ ret.tag = "Ok" /\ ret.kind = "Trade"
    /\ Len(ret.fields) = 16 /\ ret.fields[4] = <<1>>

\* The unsigned integer that the bytes hold, least significant byte first
RECURSIVE FromLE(_)
FromLE(bytes) ==
    IF bytes = << >> THEN << >>
    ELSE Add(FromInt(bytes[1]), Mul(<<256>>, FromLE(Tail(bytes))))

\* data[from ..] holds the u64 values, each in 8 bytes, least significant first
RECURSIVE HoldsU64s(_, _, _)
HoldsU64s(data, from, values) ==
    \/ values = << >>
    \/ /\ Len(data) >= from + 7
       /\ FromLE(SubSeq(data, from, from + 7)) = values[1]
       /\ HoldsU64s(data, from + 8, Tail(values))

\* C19: for each of CreatePool, Buy, Sell, Deposit, Withdraw and ExtendAccount, data()
\* is the operation's 8-byte discriminator followed by the argument fields in
\* declaration order, fixed-width little-endian with no padding (58, 24, 24, 32, 32 and
\* 8 bytes in all), and the six discriminators are pairwise distinct.
C19_InstructionData ==
    /\ LET d == <<CreatePool_DISCRIMINATOR, Buy_DISCRIMINATOR, Sell_DISCRIMINATOR,
                  Deposit_DISCRIMINATOR, Withdraw_DISCRIMINATOR,
                  ExtendAccount_DISCRIMINATOR>>
       IN  \A i, j \in 1 .. 6 : (Len(d[i]) = 8) /\ (i # j => d[i] # d[j])
    /\ Done("create_pool") =>
        /\ Len(ret.data) = 58
        /\ SubSeq(ret.data, 1, 8) = CreatePool_DISCRIMINATOR
        /\ FromLE(SubSeq(ret.data, 9, 10)) = FromInt(call.args.index)
        /\ HoldsU64s(ret.data, 11, <<call.args.base_amount_in, call.args.quote_amount_in>>)
        /\ SubSeq(ret.data, 27, 58) = call.args.coin_creator[2]
    /\ Done("buy") =>
        /\ Len(ret.data) = 24
        /\ SubSeq(ret.data, 1, 8) = Buy_DISCRIMINATOR
        /\ HoldsU64s(ret.data, 9, <<call.args.base_amount_out,
                                    call.args.max_quote_amount_in>>)
    /\ Done("sell") =>
        /\ Len(ret.data) = 24
        /\ SubSeq(ret.data, 1, 8) = Sell_DISCRIMINATOR
        /\ HoldsU64s(ret.data, 9, <<call.args.base_amount_in,
                                    call.args.min_quote_amount_out>>)
    /\ Done("deposit") =>
        /\ Len(ret.data) = 32
        /\ SubSeq(ret.data, 1, 8) = Deposit_DISCRIMINATOR
        /\ HoldsU64s(ret.data, 9, <<call.args.lp_token_amount_out,
                                    call.args.max_base_amount_in,
                                    call.args.max_quote_amount_in>>)
    /\ Done("withdraw") =>
        /\ Len(ret.data) = 32
        /\ SubSeq(ret.data, 1, 8) = Withdraw_DISCRIMINATOR
        /\ HoldsU64s(ret.data, 9, <<call.args.lp_token_amount_in,
                                    call.args.min_base_amount_out,
                                    call.args.min_quote_amount_out>>)
    /\ Done("extend_account") => ret.data = ExtendAccount_DISCRIMINATOR

\* A CreatePool payload whose index and amounts show the byte order: index 258 as
\* the bytes 2, 1 and an amount of 258 next to one of 2^64 - 1.
C19_Witness ==
    /\ Done("create_pool")
    /\ call.args.index = 258 /\ SubSeq(ret.data, 9, 10) = <<2, 1>>
    /\ call.args.base_amount_in = FromInt(258)
    /\ SubSeq(ret.data, 11, 18) = <<2, 1, 0, 0, 0, 0, 0, 0>>
    /\ call.args.quote_amount_in = U64Max
    /\ SubSeq(ret.data, 19, 26) = <<255, 255, 255, 255, 255, 255, 255, 255>>
    /\ call.args.coin_creator = Key(Rep(7, 32))

\* The accounts at positions i and i + 1 are the owner's associated token accounts
\* for the base and the quote mint of the call, each derived with the token program
\* passed for that mint
AreTokenAccountsOf(owner, i) ==
    /\ ret.accounts[i].pubkey =
        get_associated_token_address_with_program_id(owner, call.base_mint,
                                                     call.base_token_program)
    /\ ret.accounts[i + 1].pubkey =
        get_associated_token_address_with_program_id(owner, call.quote_mint,
                                                     call.quote_token_program)

\* C20: in every instruction built by create_pool, buy, sell, deposit and withdraw,
\* the user's and the pool's associated token accounts for the base and the quote
\* mint are the associated addresses derived from (owner, mint, the token program
\* passed for that mint); so the user's accounts in buy, deposit and withdraw are
\* derived with the same token program as the pool's accounts for the same mint.
C20_AssociatedTokenAccounts ==
    /\ Done("create_pool") =>
        (AreTokenAccountsOf(call.user, 7) /\ AreTokenAccountsOf(ret.accounts[1].pubkey, 10))
    /\ (Done("buy") \/ Done("sell")) =>
        (AreTokenAccountsOf(call.user, 6) /\ AreTokenAccountsOf(call.pool, 8))
    /\ (Done("deposit") \/ Done("withdraw")) =>
        (AreTokenAccountsOf(call.user, 7) /\ AreTokenAccountsOf(call.pool, 10))

\* C21: address derivation is a pure function of its seed recipe. The pool address
\* placed first in the create_pool instruction is the address derived under the
\* AMM program from the pool seed, the index as two little-endian bytes, the
\* creator, the base mint and the quote mint, and from nothing else; the LP mint
\* placed sixth is the address derived from the LP-mint seed and that pool address;
\* deriving either again from the same arguments gives the same address.
C21_AddressDerivation ==
    Done("create_pool") =>
        LET pool    == ret.accounts[1].pubkey
            lp_mint == ret.accounts[6].pubkey
            index   == call.args.index
        IN  /\ pool = <<"pda", PUMPAMM,
                        <<"POOL_SEED", <<index % 256, index \div 256>>,
                          call.user, call.base_mint, call.quote_mint>>>>
            /\ pool = get_pool_pda(index, call.user, call.base_mint, call.quote_mint)
            /\ lp_mint = <<"pda", PUMPAMM, <<"POOL_LP_MINT_SEED", pool>>>>
            /\ lp_mint = get_lp_mint_pda(pool)
            /\ lp_mint = get_lp_mint_pda(get_pool_pda(index, call.user, call.base_mint,
                                                      call.quote_mint))

\* A pool created with index 258, whose two bytes differ, for the second wallet
C21_Witness ==
    /\ Done("create_pool")
    /\ call.args.index = 258
    /\ call.user = Key(Rep(2, 32))
    /\ call.base_mint # call.quote_mint
    /\ ret.accounts[1].pubkey[3][2] = <<2, 1>>
    /\ ret.accounts[6].pubkey[3][2] = ret.accounts[1].pubkey

\* The positions in the list ixs of the AMM program's instructions whose payload
\* starts with the discriminator d
Positions(ixs, d) ==
    {i \in 1 .. Len(ixs) :
        /\ ixs[i].program_id = PUMPAMM
        /\ Len(ixs[i].data) >= 8
        /\ SubSeq(ixs[i].data, 1, 8) = d}

\* The transaction holds exactly one trade instruction, with discriminator d and
\* the two amounts first and second as its arguments
IsOnlyTrade(ixs, d, first, second) ==
    /\ Cardinality(Positions(ixs, Buy_DISCRIMINATOR)
                   \cup Positions(ixs, Sell_DISCRIMINATOR)) = 1
    /\ \E i \in Positions(ixs, d) :
        /\ Len(ixs[i].data) = 24
        /\ FromLE(SubSeq(ixs[i].data, 9, 16)) = first
        /\ FromLE(SubSeq(ixs[i].data, 17, 24)) = second

\* C22: swap maps (input, direction) to exactly one trade instruction whose
\* arguments come from the matching quote function evaluated on the pool balances
\* and the global fee rates swap read: a base input buys or sells the amount itself
\* with the max_quote of buy_base_input or the min_quote of sell_base_input; a quote
\* input buys or sells the base amount of buy_quote_input or sell_quote_input with
\* its max_quote or min_quote. When the quote function fails, so does swap.
C22_SwapInstruction ==
    Done("swap") /\ call.rpc.ok =>
        LET r == call.rpc
            is_default == r.coin_creator = Key(Rep(0, 32))
            buying == call.swap_direction = "QuoteToBase"
            by_base == call.swap_input = "Base"
            q == IF buying /\ by_base
                 THEN buy_base_input(call.amount, call.slippage, r.base_balance,
                                     r.quote_balance, r.lp_fee_basis_points,
                                     r.protocol_fee_basis_points)
                 ELSE IF buying
                 THEN buy_quote_input(call.amount, call.slippage, r.base_balance,
                                      r.quote_balance, r.lp_fee_basis_points,
                                      r.protocol_fee_basis_points)
                 ELSE IF by_base
                 THEN sell_base_input(call.amount, call.slippage, r.base_balance,
                                      r.quote_balance, r.lp_fee_basis_points,
                                      r.protocol_fee_basis_points,
                                      r.coin_creator_fee_basis_points, is_default,
                                      call.checks)
                 ELSE sell_quote_input(call.amount, call.slippage, r.base_balance,
                                       r.quote_balance, r.lp_fee_basis_points,
                                       r.protocol_fee_basis_points,
                                       r.coin_creator_fee_basis_points, is_default,
                                       call.checks)
        IN  IF q.tag = "Ok"
            THEN /\ ret.tag = "Ok"
                 /\ IsOnlyTrade(ret.val,
                                IF buying THEN Buy_DISCRIMINATOR ELSE Sell_DISCRIMINATOR,
                                IF by_base THEN call.amount ELSE q.val[2], q.val[3])
            ELSE ret = q

\* A swap of 2 quote tokens into base tokens on a pool of 1_000_000 / 3 that is
\* sent: the trade buys the 250_000 base tokens of the quote for at most 2
C22_Witness ==
    /\ Done("swap")
    /\ call.swap_input = "Quote" /\ call.swap_direction = "QuoteToBase"
    /\ call.amount = FromInt(2) /\ call.slippage = 1
    /\ call.rpc.base_balance = FromInt(1000000) /\ call.rpc.quote_balance = FromInt(3)
    /\ ret.tag = "Ok"
    /\ \E i \in 1 .. Len(ret.val) :
        /\ SubSeq(ret.val[i].data, 1, 8) = Buy_DISCRIMINATOR
        /\ FromLE(SubSeq(ret.val[i].data, 9, 16)) = FromInt(250000)
        /\ FromLE(SubSeq(ret.val[i].data, 17, 24)) = FromInt(2)

\* The positions in the list ixs of the instructions of the program with payload data
At(ixs, program, data) ==
    {i \in 1 .. Len(ixs) : ixs[i].program_id = program /\ ixs[i].data = data}

\* The positions in the list ixs of the system program's transfers
Transfers(ixs) ==
    {i \in 1 .. Len(ixs) :
        /\ ixs[i].program_id = SYSTEM_PROGRAM
        /\ SubSeq(ixs[i].data, 1, 4) = <<2, 0, 0, 0>>}

\* The list ixs ends with its only instruction of discriminator main; its
\* extend_account instructions come before that; it funds a wrapped-SOL account
\* only if the mint is the native mint and the amount is not zero, by a transfer
\* of the amount immediately followed by sync_native on the account the transfer
\* pays into, both before every extend_account and before the main instruction.
IsOrdered(ixs, main, mint, amount) ==
    LET extends == At(ixs, PUMPAMM, ExtendAccount_DISCRIMINATOR)
        syncs   == At(ixs, TOKEN_PROGRAM, <<17>>)
    IN  /\ Positions(ixs, main) = {Len(ixs)}
        /\ \A i \in extends : i < Len(ixs)
        /\ (Transfers(ixs) \cup syncs # {}) => (mint = NATIVE_MINT /\ amount # << >>)
        /\ \A i \in Transfers(ixs) :
            /\ i + 1 \in syncs
            /\ ixs[i + 1].accounts[1].pubkey = ixs[i].accounts[2].pubkey
            /\ FromLE(SubSeq(ixs[i].data, 5, 12)) = amount
        /\ \A j \in syncs : j - 1 \in Transfers(ixs)
        /\ \A j \in syncs : j < Len(ixs) /\ \A e \in extends : j < e

\* C30: in every list returned by get_buy_instructions, get_sell_instructions,
\* get_deposit_instructions and get_withdraw_instructions the trade or liquidity
\* instruction occurs exactly once and is last; any extend_account instruction
\* precedes it; wrapped-SOL funding is emitted only when the funded mint (the
\* quote mint of a buy or a deposit, the base mint of a sell) is the native mint
\* and the amount is greater than zero, always as a system transfer immediately
\* followed by sync_native on the same token account, and both precede the
\* extend_account and the main instruction. A withdrawal funds nothing.
C30_InstructionOrder ==
    ret.tag = "Ok" =>
        /\ Done("get_buy_instructions") =>
            IsOrdered(ret.val, Buy_DISCRIMINATOR, call.rpc.quote_mint, call.quote)
        /\ Done("get_sell_instructions") =>
            IsOrdered(ret.val, Sell_DISCRIMINATOR, call.rpc.base_mint, call.base)
        /\ Done("get_deposit_instructions") =>
            IsOrdered(ret.val, Deposit_DISCRIMINATOR, call.rpc.quote_mint, call.quote)
        /\ Done("get_withdraw_instructions") =>
            IsOrdered(ret.val, Withdraw_DISCRIMINATOR, Payer, << >>)

\* A buy on a short pool account with wrapped SOL as the quote mint: the list is
\* the transfer, sync_native, extend_account and the buy, in that order
C30_Witness ==
    /\ Done("get_buy_instructions")
    /\ call.rpc.quote_mint = NATIVE_MINT /\ call.quote = FromInt(258)
    /\ call.rpc.short /\ ~call.rpc.missing
    /\ ret.tag = "Ok" /\ Len(ret.val) = 4
    /\ Transfers(ret.val) = {1}
    /\ At(ret.val, TOKEN_PROGRAM, <<17>>) = {2}
    /\ At(ret.val, PUMPAMM, ExtendAccount_DISCRIMINATOR) = {3}
    /\ Positions(ret.val, Buy_DISCRIMINATOR) = {4}

\* C26: in every instruction built by create_pool, buy, sell, deposit, withdraw and
\* extend_account exactly one account is flagged as signer, and it is the user's
\* (the creator's) key; no pool, mint, config, token account or program account
\* is flagged as signer.
C26_OneSigner ==
    pc = "done" =>
        LET signers == {i \in 1 .. Len(ret.accounts) : ret.accounts[i].is_signer}
        IN  /\ Cardinality(signers) = 1
            /\ \A i \in signers : ret.accounts[i].pubkey = call.user

\* C27: whenever buy_quote_input(q, s, ...) succeeds with a base amount b in
\* 1 .. base_reserve - 1 and a slippage s in 0 .. 100, the fee-inclusive total quote
\* that buy_base_input(b, s, ...) computes on the same reserves and fees is at most
\* the max_quote buy_quote_input returned: the trade is executable at unchanged
\* reserves.
C27_BuyQuoteExecutable ==
    (BuyQuoteGaveBase /\ call.slippage <= 100 /\ BuyBack.tag = "Ok")
    => Leq(BuyBack.val[2], ret.val[3])

\* sell_base_input for the base amount that sell_quote_input returned, on the same
\* reserves, fee rates and creator, in a build with or without overflow checks
SellBack(checks) ==
    sell_base_input(ret.val[2], call.slippage, call.base_reserve, call.quote_reserve,
                    call.lp_fee_bps, call.protocol_fee_bps, call.coin_creator_fee_bps,
                    call.coin_creator_is_default, checks)

\* The build with or without overflow checks returns what the state holds for the
\* call of sell_quote_input
SellQuoteBuild(checks) ==
    ret = sell_quote_input(call.quote, call.slippage, call.base_reserve,
                           call.quote_reserve, call.lp_fee_bps, call.protocol_fee_bps,
                           call.coin_creator_fee_bps, call.coin_creator_is_default,
                           checks)

\* C28: whenever sell_quote_input(q, s, ...) succeeds with base_in and min_quote, and
\* sell_base_input(base_in, s, ...) succeeds on the same reserves, fee rates and
\* creator, the final quote it returns is at least that min_quote: the trade is
\* executable at unchanged reserves.
C28_SellQuoteExecutable ==
    (Done("sell_quote_input") /\ ret.tag = "Ok") =>
        \A checks \in BOOLEAN :
            (SellQuoteBuild(checks) /\ SellBack(checks).tag = "Ok")
            => Leq(ret.val[3], SellBack(checks).val[1])

\* The subscription that the unsubscribe operation fn with parameters params ends
ActiveEntry(fn, params) ==
    Payload(CASE fn = "unsubscribe_trades" -> "subscribeTrades"
              [] fn = "unsubscribe_new_pools" -> "subscribeNewPools"
              [] fn = "unsubscribe_token" -> "subscribeToken",
            params)

\* The list subs without the entries equal to entry
Without(subs, entry) == SelectSeq(subs, LAMBDA e : e # entry)

\* C29: the subsciptions list holds the subscriptions that are active: every
\* unsubscribe_trades, unsubscribe_new_pools or unsubscribe_token(t) that returns
\* leaves no entry for the matching subscription (subscribeTrades,
\* subscribeNewPools, subscribeToken with t) in the list, and removes only the
\* matching subscription.
C29_ActiveSubscriptions ==
    [][(/\ pc' = "idle"
        /\ call'.fn \in {"unsubscribe_trades", "unsubscribe_new_pools",
                         "unsubscribe_token"})
       => ret'.subsciptions = Without(ret.subsciptions,
                                      ActiveEntry(call'.fn, call'.params))]_vars

\* C23: subscribe returns an error value to its caller when the log subscription
\* request fails; it does not return Ok(Subscription) for a subscription that was
\* never established.
C23_SubscribeFailureIsError ==
    ret.task = "panicked" => ret.result = "Err"

\* C24: dropping the Subscription terminates the subscription: the drop first calls
\* the unsubscribe hook and then aborts the task, and after the drop the callback is
\* never invoked for a log that reached the stream after the drop.
C24_DropTerminates ==
    pc = "dropped" =>
        /\ ret.dropped = <<"unsubscribe", "abort">>
        /\ \A i \in 1 .. Len(ret.calls) : ~ret.calls[i].response.after_drop

\* The lines the loop has passed so far: <<k, j>> for line j of the k-th log taken
LinesPassed ==
    {<<k, j>> \in (1 .. Len(ret.taken)) \X (1 .. 3) :
        j <= (IF k < Len(ret.taken) THEN Len(ret.taken[k].logs) ELSE ret.line - 1)}

\* C25: in the subscribe loop the callback is invoked exactly once for every line
\* passed that starts with "Program data:", in line order and in log arrival
\* order, each time with that log's signature and with exactly one of event and
\* error set, event if and only if parse_event succeeded on the line's data; it is
\* never invoked for other lines, and a parse failure does not stop the processing
\* of later lines or later logs.
C25_CallbackPerProgramDataLine ==
    ret.taken # << >> =>
        LET calls == ret.calls
            expected ==
                {at \in LinesPassed :
                    /\ Len(ret.taken[at[1]].logs[at[2]]) >= 13
                    /\ SubSeq(ret.taken[at[1]].logs[at[2]], 1, 13)
                        = <<15, 43, 40, 32, 43, 26, 38, 66, 29, 26, 45, 26, 65>>}
        IN  /\ {calls[i].at : i \in 1 .. Len(calls)} = expected
            /\ Len(calls) = Cardinality(expected)
            /\ \A i \in 1 .. Len(calls) : \A j \in 1 .. Len(calls) :
                i < j => \/ calls[i].at[1] < calls[j].at[1]
                         \/ /\ calls[i].at[1] = calls[j].at[1]
                            /\ calls[i].at[2] < calls[j].at[2]
            /\ \A i \in 1 .. Len(calls) :
                LET log == ret.taken[calls[i].at[1]]
                    got == parse_event(log.signature,
                                       ProgramData(log.logs[calls[i].at[2]]))
                IN  /\ calls[i].signature = log.signature
                    /\ calls[i].response.logs = log.logs
                    /\ calls[i].event # calls[i].error
                    /\ calls[i].event = (got.tag = "Ok")

\* Two logs have been processed: in the first the line without the prefix was
\* skipped, the next line failed to parse and the line after it gave an event; the
\* second log followed with its own signature
C25_Witness ==
    /\ Len(ret.taken) = 2 /\ Len(ret.calls) >= 4
    /\ ret.calls[1].at = <<1, 2>> /\ ret.calls[1].error /\ ~ret.calls[1].event
    /\ ret.calls[2].at = <<1, 3>> /\ ret.calls[2].event /\ ~ret.calls[2].error
    /\ ret.calls[2].parsed.kind = "Complete"
    /\ ret.calls[3].at = <<2, 1>> /\ ret.calls[3].error
    /\ ret.calls[4].at = <<2, 2>> /\ ret.calls[4].event
    /\ ret.calls[1].signature = "5VERv8" /\ ret.calls[3].signature = "3Bxs4h"

====
